---- MODULE Spec2Model ----
(***************************************************************************)
(* A model of the go-ditor / KIGO terminal text editor.                    *)
(*                                                                         *)
(* Characters are code points (integers), rows are sequences of code       *)
(* points.  Go slices are 0-based; a sequence s models the slice whose     *)
(* element i is s[i+1].  The Editor struct is the record E; every method   *)
(* of the source is an operator that maps an editor record to the editor   *)
(* record the method leaves behind.                                        *)
(***************************************************************************)
EXTENDS Integers, Sequences, FiniteSets, TLC

(***************************************************************************)
(* Configuration constants, key aliases, highlight tags, editor modes.     *)
(***************************************************************************)
TAB_STOP == 4
CONTROL_SEQUENCE_WIDTH == 2
QUIT_TIMES == 3

BACKSPACE == 127
ARROW_LEFT == 1001
ARROW_RIGHT == 1002
ARROW_UP == 1003
ARROW_DOWN == 1004
DELETE_KEY == 1005
HOME_KEY == 1006
END_KEY == 1007
PAGE_UP == 1008
PAGE_DOWN == 1009

HL_NORMAL == 0
HL_COMMENT == 1
HL_MLCOMMENT == 2
HL_KEYWORD1 == 3
HL_KEYWORD2 == 4
HL_STRING == 5
HL_NUMBER == 6
HL_MATCH == 7
HL_CONTROL == 8

EDIT_MODE == 0
EXPLORER_MODE == 1
SEARCH_MODE == 2
SAVE_MODE == 3
HELP_MODE == 4

isControl(r) == r < 32 \/ r = 127

isDigit(r) == r >= 48 /\ r <= 57

\* c & 0x1f
withControlKey(c) == c % 32

\* ' ', \t, \n, \r, \v, \f, NUL and the punctuation ",.()+-/*=~%<>[];"
isSeparator(c) ==
    \/ c \in {32, 9, 10, 13, 11, 12, 0}
    \/ c \in {44, 46, 40, 41, 43, 45, 47, 42, 61, 126, 37, 60, 62, 91, 93, 59}

(***************************************************************************)
(* The syntax database.  A *editorSyntax is an index into HLDB_ENTRIES;    *)
(* NoSyntax is the nil pointer.                                            *)
(***************************************************************************)
NoSyntax == 0

HLDB_ENTRIES == <<
  [ filetype  |-> "c",
    filematch |-> << <<46, 99>>, <<46, 104>>, <<46, 99, 112, 112>> >>,
    keywords  |-> <<
      \* switch if while for break continue return else
      \* struct union typedef static enum class case
      << <<115, 119, 105, 116, 99, 104>>,
         <<105, 102>>,
         <<119, 104, 105, 108, 101>>,
         <<102, 111, 114>>,
         <<98, 114, 101, 97, 107>>,
         <<99, 111, 110, 116, 105, 110, 117, 101>>,
         <<114, 101, 116, 117, 114, 110>>,
         <<101, 108, 115, 101>>,
         <<115, 116, 114, 117, 99, 116>>,
         <<117, 110, 105, 111, 110>>,
         <<116, 121, 112, 101, 100, 101, 102>>,
         <<115, 116, 97, 116, 105, 99>>,
         <<101, 110, 117, 109>>,
         <<99, 108, 97, 115, 115>>,
         <<99, 97, 115, 101>> >>,
      \* int long double float char unsigned signed void
      << <<105, 110, 116>>,
         <<108, 111, 110, 103>>,
         <<100, 111, 117, 98, 108, 101>>,
         <<102, 108, 111, 97, 116>>,
         <<99, 104, 97, 114>>,
         <<117, 110, 115, 105, 103, 110, 101, 100>>,
         <<115, 105, 103, 110, 101, 100>>,
         <<118, 111, 105, 100>> >> >>,
    singlelineCommentStart |-> <<47, 47>>,
    multilineCommentStart  |-> <<47, 42>>,
    multilineCommentEnd    |-> <<42, 47>>,
    flags |-> [numbers |-> TRUE, strings |-> TRUE] ],
  [ filetype  |-> "go",
    filematch |-> << <<46, 103, 111>>, <<46, 109, 111, 100>>, <<46, 115, 117, 109>> >>,
    keywords  |-> <<
      \* break case chan const continue default defer else fallthrough for
      \* go goto if import map package range return select struct switch
      \* type var
      << <<98, 114, 101, 97, 107>>,
         <<99, 97, 115, 101>>,
         <<99, 104, 97, 110>>,
         <<99, 111, 110, 115, 116>>,
         <<99, 111, 110, 116, 105, 110, 117, 101>>,
         <<100, 101, 102, 97, 117, 108, 116>>,
         <<100, 101, 102, 101, 114>>,
         <<101, 108, 115, 101>>,
         <<102, 97, 108, 108, 116, 104, 114, 111, 117, 103, 104>>,
         <<102, 111, 114>>,
         <<103, 111>>,
         <<103, 111, 116, 111>>,
         <<105, 102>>,
         <<105, 109, 112, 111, 114, 116>>,
         <<109, 97, 112>>,
         <<112, 97, 99, 107, 97, 103, 101>>,
         <<114, 97, 110, 103, 101>>,
         <<114, 101, 116, 117, 114, 110>>,
         <<115, 101, 108, 101, 99, 116>>,
         <<115, 116, 114, 117, 99, 116>>,
         <<115, 119, 105, 116, 99, 104>>,
         <<116, 121, 112, 101>>,
         <<118, 97, 114>> >>,
      \* interface func
      << <<105, 110, 116, 101, 114, 102, 97, 99, 101>>,
         <<102, 117, 110, 99>> >> >>,
    singlelineCommentStart |-> <<47, 47>>,
    multilineCommentStart  |-> <<47, 42>>,
    multilineCommentEnd    |-> <<42, 47>>,
    flags |-> [numbers |-> TRUE, strings |-> TRUE] ] >>

(***************************************************************************)
(* Sequence helpers.                                                       *)
(***************************************************************************)
\* strings.HasPrefix(string(s[i:]), p), i a 0-based offset
HasPrefix(s, i, p) ==
    /\ i + Len(p) <= Len(s)
    /\ \A k \in 1..Len(p) : s[i + k] = p[k]

\* the sequence s with the elements at 0-based offsets i .. i+n-1 set to v
\* (offsets past the end are skipped)
SetRange(s, i, n, v) ==
    [k \in 1..Len(s) |-> IF k - 1 >= i /\ k - 1 < i + n THEN v ELSE s[k]]

\* make([]int, n)
Zeros(n) == [k \in 1..n |-> 0]

(***************************************************************************)
(* Syntax highlighting of one row: the scan loop of UpdateSyntax.          *)
(***************************************************************************)
\* the keyword loop at one word start: every keyword of every class that is
\* a prefix of render[i:] tags its own length, later matches overwriting
\* earlier ones.  The outer loop runs over the classes in order, so the tag
\* a character ends with is that of the last class with a matching keyword
\* long enough to reach it.
KeywordTags(render, keywords, i, hl) ==
    LET \* reach[j] is the length of the longest keyword of class j that is a
        \* prefix of render[i:], 0 when there is none
        tags(reach) ==
            [k \in 1..Len(hl) |->
                LET classes == { j \in 1..Len(reach) : k - 1 >= i /\ k - 1 < i + reach[j] }
                IN IF classes = {} THEN hl[k]
                   ELSE HL_KEYWORD1
                        + ((CHOOSE j \in classes : \A j2 \in classes : j2 <= j) - 1)]
    IN tags([j \in 1..Len(keywords) |->
                LET lens == { Len(keywords[j][n]) :
                                 n \in { n \in 1..Len(keywords[j]) :
                                            HasPrefix(render, i, keywords[j][n]) } }
                IN IF lens = {} THEN 0 ELSE CHOOSE m \in lens : \A m2 \in lens : m2 <= m])

\* one round of the scan loop; s holds the loop's variables i, prevSep,
\* inString, inComment and the tags made so far.  A round that leaves the
\* loop (break) puts i at the end of the row.
ScanStep(render, syn, s) ==
    IF s.i >= Len(render) THEN s
    ELSE
    LET i == s.i
        hl == s.hl
        prevSep == s.prevSep
        inString == s.inString
        inComment == s.inComment
        c == render[i + 1]
        prevHl == IF i > 0 THEN hl[i] ELSE HL_NORMAL
        scs == syn.singlelineCommentStart
        mcs == syn.multilineCommentStart
        mce == syn.multilineCommentEnd
        next(i2, hl2, prevSep2, inString2, inComment2) ==
            [i |-> i2, hl |-> hl2, prevSep |-> prevSep2, inString |-> inString2,
             inComment |-> inComment2]
    IN
    IF inString = 0 /\ ~inComment /\ c = 94 /\ i + 1 < Len(render) THEN
        \* control sequence ^X
        next(i + 2, SetRange(hl, i, 2, HL_CONTROL), TRUE, inString, inComment)
    ELSE IF Len(scs) > 0 /\ inString = 0 /\ ~inComment /\ HasPrefix(render, i, scs) THEN
        \* single line comment: tag the rest of the row and stop
        next(Len(render), SetRange(hl, i, Len(render) - i, HL_COMMENT),
             prevSep, inString, inComment)
    ELSE IF Len(mcs) > 0 /\ Len(mce) > 0 /\ inString = 0 /\ inComment THEN
        IF HasPrefix(render, i, mce)
        THEN next(i + Len(mce), SetRange(hl, i, Len(mce), HL_MLCOMMENT),
                  prevSep, inString, FALSE)
        ELSE next(i + 1, SetRange(hl, i, 1, HL_MLCOMMENT), prevSep, inString, inComment)
    ELSE IF Len(mcs) > 0 /\ Len(mce) > 0 /\ inString = 0 /\ HasPrefix(render, i, mcs) THEN
        next(i + Len(mcs), SetRange(hl, i, Len(mcs), HL_MLCOMMENT), prevSep, inString, TRUE)
    ELSE IF syn.flags.strings /\ inString # 0 THEN
        IF c = 92 /\ i + 1 < Len(render)
        THEN next(i + 2, SetRange(hl, i, 2, HL_STRING), prevSep, inString, inComment)
        ELSE next(i + 1, SetRange(hl, i, 1, HL_STRING),
                  TRUE, IF c = inString THEN 0 ELSE inString, inComment)
    ELSE IF syn.flags.strings /\ (c = 34 \/ c = 39) THEN
        next(i + 1, SetRange(hl, i, 1, HL_STRING), prevSep, c, inComment)
    ELSE IF syn.flags.numbers
            /\ ((isDigit(c) /\ (prevSep \/ prevHl = HL_NUMBER))
                \/ (c = 46 /\ prevHl = HL_NUMBER)) THEN
        next(i + 1, SetRange(hl, i, 1, HL_NUMBER), FALSE, inString, inComment)
    ELSE IF prevSep THEN
        \* we entered a new word
        next(i + 1, KeywordTags(render, syn.keywords, i, hl), FALSE, inString, inComment)
    ELSE
        next(i + 1, hl, isSeparator(c), inString, inComment)

\* the loop's variables after n rounds from s, or at the end of the row when
\* that comes earlier (the rounds are taken half by half)
RECURSIVE ScanLoop(_, _, _, _)
ScanLoop(render, syn, s, n) ==
    IF n = 0 \/ s.i >= Len(render) THEN s
    ELSE IF n = 1 THEN ScanStep(render, syn, s)
    ELSE ScanLoop(render, syn, ScanLoop(render, syn, s, n \div 2), n - (n \div 2))

\* the scan loop run from offset i to the end of the row: the tags and the
\* comment state it leaves (every round advances i, so Len(render) - i
\* rounds reach the end)
ScanRow(render, syn, i, hl, prevSep, inString, inComment) ==
    LET end(s) == [hl |-> s.hl, inComment |-> s.inComment]
    IN end(ScanLoop(render, syn,
                    [i |-> i, hl |-> hl, prevSep |-> prevSep, inString |-> inString,
                     inComment |-> inComment],
                    IF i < Len(render) THEN Len(render) - i ELSE 0))

(***************************************************************************)
(* Row operations.  A row pointer &e.row[pos] is the 0-based position pos. *)
(***************************************************************************)
\* row.UpdateSyntax(e) for row == &e.row[pos]: the scan of the row, started
\* in a comment when the row before row.idx ends in one, then the part after
\* the scan loop
RECURSIVE UpdateSyntax(_, _)
RECURSIVE UpdateSyntaxEnd(_, _, _)
UpdateSyntax(e, pos) ==
    LET row == e.row[pos + 1] IN
    IF e.syntax = NoSyntax THEN [e EXCEPT !.row[pos + 1].hl = Zeros(Len(row.render))]
    ELSE UpdateSyntaxEnd(e, pos,
             ScanRow(row.render, HLDB_ENTRIES[e.syntax], 0, Zeros(Len(row.render)), TRUE, 0,
                     /\ row.idx > 0
                     /\ row.idx - 1 < Len(e.row)
                     /\ e.row[row.idx].hlOpenComment))

\* the end of UpdateSyntax, r the tags and comment state the scan loop left:
\* they are stored, and when the row's open comment flag changed and a row
\* follows row.idx, that row is highlighted again
UpdateSyntaxEnd(e, pos, r) ==
    LET row == e.row[pos + 1] IN
    IF row.hlOpenComment # r.inComment /\ row.idx + 1 < e.totalRows
    THEN UpdateSyntax([e EXCEPT !.row[pos + 1].hl = r.hl,
                                !.row[pos + 1].hlOpenComment = r.inComment],
                      row.idx + 1)
    ELSE [e EXCEPT !.row[pos + 1].hl = r.hl,
                   !.row[pos + 1].hlOpenComment = r.inComment]

\* one round of the render loop of Update: a tab becomes spaces up to the
\* next tab stop, a control character ^X, everything else is copied
RECURSIVE PadTab(_)
PadTab(render) ==
    IF Len(render) % TAB_STOP # 0 THEN PadTab(Append(render, 32)) ELSE render

\* RenderStep with a tab always four columns wide
RenderStep_wide(chars, s) ==
    LET char == chars[s.k]
        render == s.render
    IN [k |-> s.k + 1,
        render |-> IF char = 9 THEN render \o <<32, 32, 32, 32>>
                   ELSE IF isControl(char) THEN
                        Append(Append(render, 94),
                               IF char = 127 THEN 63
                               ELSE IF char = 27 THEN 91
                               ELSE char + 64)
                   ELSE Append(render, char)]

RenderStep(chars, s) ==
    LET char == chars[s.k]
        render == s.render
    IN [k |-> s.k + 1,
        render |-> IF char = 9 THEN PadTab(Append(render, 32))
                   ELSE IF isControl(char) THEN
                        Append(Append(render, 94),
                               IF char = 127 THEN 63
                               ELSE IF char = 27 THEN 91
                               ELSE char + 64)
                   ELSE Append(render, char)]

\* the loop's state (the 1-based position k of the next character and the
\* text rendered so far) after n rounds from s, or at the end of chars when
\* that comes earlier (the rounds are taken half by half)
RECURSIVE RenderLoop(_, _, _)
RenderLoop(chars, s, n) ==
    IF n = 0 \/ s.k > Len(chars) THEN s
    ELSE IF n = 1 THEN RenderStep(chars, s)
    ELSE RenderLoop(chars, RenderLoop(chars, s, n \div 2), n - (n \div 2))

\* the render loop of Update from chars[k] to the end
RenderChars(chars, k, render) ==
    RenderLoop(chars, [k |-> k, render |-> render], Len(chars)).render

\* Update that makes the rendered text again and leaves the tags as they are
Update_alone(e, pos) ==
    [e EXCEPT !.row[pos + 1].render = RenderChars(e.row[pos + 1].chars, 1, <<>>)]

\* row.Update(e) for row == &e.row[pos]
Update(e, pos) ==
    UpdateSyntax([e EXCEPT !.row[pos + 1].render = RenderChars(e.row[pos + 1].chars, 1, <<>>)],
                 pos)

\* row.cxToRx(cx)
RECURSIVE cxToRxLoop(_, _, _, _)
cxToRxLoop(chars, cx, j, rx) ==
    IF j >= cx THEN rx
    ELSE IF chars[j + 1] = 9
         THEN cxToRxLoop(chars, cx, j + 1, rx + (TAB_STOP - (rx % TAB_STOP)))
    ELSE IF isControl(chars[j + 1])
         THEN cxToRxLoop(chars, cx, j + 1, rx + CONTROL_SEQUENCE_WIDTH)
    ELSE cxToRxLoop(chars, cx, j + 1, rx + 1)

cxToRx(row, cx) == cxToRxLoop(row.chars, cx, 0, 0)

\* row.rxToCx(rx)
RECURSIVE rxToCxLoop(_, _, _, _)
rxToCxLoop(chars, rx, cx, curRx) ==
    IF cx >= Len(chars) THEN cx
    ELSE LET step == IF chars[cx + 1] = 9 THEN (TAB_STOP - 1) - (curRx % TAB_STOP)
                     ELSE IF isControl(chars[cx + 1]) THEN CONTROL_SEQUENCE_WIDTH
                     ELSE 0
             next == curRx + step + 1
         IN IF next > rx THEN cx ELSE rxToCxLoop(chars, rx, cx + 1, next)

rxToCx(row, rx) == rxToCxLoop(row.chars, rx, 0, 0)

\* InsertRow that does not count the change
InsertRow_clean(e, at, s, rowlen) ==
    IF at < 0 \/ at > e.totalRows THEN e
    ELSE
    LET newRow == [idx |-> at, chars |-> SubSeq(s, 1, rowlen), render |-> <<>>,
                   hl |-> <<>>, hlOpenComment |-> FALSE]
        inserted == SubSeq(e.row, 1, at) \o <<newRow>> \o SubSeq(e.row, at + 1, Len(e.row))
        renumbered == [j \in 1..Len(inserted) |->
                          IF j - 1 >= at + 1 /\ j - 1 < e.totalRows + 1
                          THEN [inserted[j] EXCEPT !.idx = j - 1]
                          ELSE inserted[j]]
        e1 == Update([e EXCEPT !.row = renumbered], at)
    IN [e1 EXCEPT !.totalRows = @ + 1]

\* e.InsertRow(at, s, rowlen)
InsertRow(e, at, s, rowlen) ==
    IF at < 0 \/ at > e.totalRows THEN e
    ELSE
    LET newRow == [idx |-> at, chars |-> SubSeq(s, 1, rowlen), render |-> <<>>,
                   hl |-> <<>>, hlOpenComment |-> FALSE]
        inserted == SubSeq(e.row, 1, at) \o <<newRow>> \o SubSeq(e.row, at + 1, Len(e.row))
        renumbered == [j \in 1..Len(inserted) |->
                          IF j - 1 >= at + 1 /\ j - 1 < e.totalRows + 1
                          THEN [inserted[j] EXCEPT !.idx = j - 1]
                          ELSE inserted[j]]
        e1 == Update([e EXCEPT !.row = renumbered], at)
    IN [e1 EXCEPT !.totalRows = @ + 1, !.dirty = @ + 1]

\* e.DeleteRow(at)
DeleteRow(e, at) ==
    IF at < 0 \/ at >= e.totalRows THEN e
    ELSE
    LET removed == SubSeq(e.row, 1, at) \o SubSeq(e.row, at + 2, Len(e.row))
        renumbered == [j \in 1..Len(removed) |->
                          IF j - 1 >= at THEN [removed[j] EXCEPT !.idx = j - 1]
                          ELSE removed[j]]
    IN [e EXCEPT !.row = renumbered, !.totalRows = @ - 1, !.dirty = @ + 1]

\* InsertChar putting r at the end of the row whatever the column asked for
InsertChar_append(e, pos, at0, r) ==
    [Update([e EXCEPT !.row[pos + 1].chars = Append(@, r)], pos) EXCEPT !.dirty = @ + 1]

\* row.InsertChar(e, at, r) for row == &e.row[pos]
InsertChar(e, pos, at0, r) ==
    LET chars == e.row[pos + 1].chars
        at == IF at0 < 0 \/ at0 > Len(chars) THEN Len(chars) ELSE at0
        e1 == [e EXCEPT !.row[pos + 1].chars =
                  SubSeq(chars, 1, at) \o <<r>> \o SubSeq(chars, at + 1, Len(chars))]
    IN [Update(e1, pos) EXCEPT !.dirty = @ + 1]

\* appendRunes putting s in front of the row's characters
appendRunes_prepend(e, pos, s) ==
    [Update([e EXCEPT !.row[pos + 1].chars = s \o @], pos) EXCEPT !.dirty = @ + 1]

\* row.appendRunes(e, s) for row == &e.row[pos]
appendRunes(e, pos, s) ==
    [Update([e EXCEPT !.row[pos + 1].chars = @ \o s], pos) EXCEPT !.dirty = @ + 1]

\* deleteChar removing the character after the one asked for
deleteChar_next(e, pos, at) ==
    LET chars == e.row[pos + 1].chars IN
    IF at < 0 \/ at >= Len(chars) THEN e
    ELSE [Update([e EXCEPT !.row[pos + 1].chars =
                     SubSeq(chars, 1, at + 1) \o SubSeq(chars, at + 3, Len(chars))], pos)
          EXCEPT !.dirty = @ + 1]

\* row.deleteChar(e, at) for row == &e.row[pos]
deleteChar(e, pos, at) ==
    LET chars == e.row[pos + 1].chars IN
    IF at < 0 \/ at >= Len(chars) THEN e
    ELSE [Update([e EXCEPT !.row[pos + 1].chars =
                     SubSeq(chars, 1, at) \o SubSeq(chars, at + 2, Len(chars))], pos)
          EXCEPT !.dirty = @ + 1]

(***************************************************************************)
(* Editor operations.                                                      *)
(***************************************************************************)
\* e.Init(): the editor after construction, for a terminal of termRows x
\* termCols whose size query succeeded
EditorInit(termRows, termCols) ==
    [cx |-> 0, cy |-> 0, rx |-> 0, rowOffset |-> 0, colOffset |-> 0,
     screenRows |-> termRows - 2, screenCols |-> termCols,
     totalRows |-> 0, row |-> <<>>, dirty |-> 0, filename |-> <<>>,
     statusMessage |-> <<"">>, syntax |-> NoSyntax, mode |-> EDIT_MODE]

\* e.SetStatusMessage(format, args...): a message is the tuple of its format
\* and the arguments the model tracks
SetStatusMessage(e, msg) == [e EXCEPT !.statusMessage = msg]

\* e.ShowError(format, args...)
ShowError(e, msg) == SetStatusMessage(e, <<"Warn: %v">> \o msg)

\* e.InsertRune(r)
InsertRune(e, r) ==
    LET e1 == IF e.cy = e.totalRows THEN InsertRow(e, e.totalRows, <<>>, 0) ELSE e
    IN [InsertChar(e1, e.cy, e.cx, r) EXCEPT !.cx = @ + 1]

\* e.InsertNewline()
InsertNewline(e) ==
    LET e1 == IF e.cx = 0 THEN InsertRow(e, e.cy, <<>>, 0)
              ELSE LET chars == e.row[e.cy + 1].chars
                       remainingText == SubSeq(chars, e.cx + 1, Len(chars))
                       e2 == InsertRow(e, e.cy + 1, remainingText, Len(chars) - e.cx)
                   IN Update([e2 EXCEPT !.row[e.cy + 1].chars = SubSeq(@, 1, e.cx)], e.cy)
    IN [e1 EXCEPT !.cy = @ + 1, !.cx = 0]

\* e.DeleteChar()
DeleteChar(e) ==
    IF e.cy = e.totalRows THEN e
    ELSE IF e.cx = 0 /\ e.cy = 0 THEN e
    ELSE IF e.cx > 0 THEN [deleteChar(e, e.cy, e.cx - 1) EXCEPT !.cx = @ - 1]
    ELSE LET e1 == [e EXCEPT !.cx = Len(e.row[e.cy].chars)]
             e2 == appendRunes(e1, e.cy - 1, e.row[e.cy + 1].chars)
             e3 == DeleteRow(e2, e.cy)
         IN [e3 EXCEPT !.cy = @ - 1]

\* MoveCursor whose ARROW_LEFT at column 0 goes to column 0 of the row above
MoveCursor_home(e, key) ==
    LET hasRow == e.cy < e.totalRows
        rowLen == IF hasRow THEN Len(e.row[e.cy + 1].chars) ELSE 0
        e1 == CASE key = ARROW_LEFT ->
                     IF e.cx # 0 THEN [e EXCEPT !.cx = @ - 1]
                     ELSE IF e.cy > 0
                          THEN [e EXCEPT !.cy = @ - 1, !.cx = 0]
                          ELSE e
                [] key = ARROW_RIGHT ->
                     IF hasRow /\ e.cx < rowLen THEN [e EXCEPT !.cx = @ + 1]
                     ELSE IF hasRow /\ e.cx = rowLen THEN [e EXCEPT !.cy = @ + 1, !.cx = 0]
                     ELSE e
                [] key = ARROW_UP ->
                     IF e.cy # 0 THEN [e EXCEPT !.cy = @ - 1] ELSE e
                [] key = ARROW_DOWN ->
                     IF e.cy < e.totalRows THEN [e EXCEPT !.cy = @ + 1] ELSE e
                [] OTHER -> e
        newLen == IF e1.cy >= e1.totalRows THEN 0 ELSE Len(e1.row[e1.cy + 1].chars)
    IN IF e1.cx > newLen THEN [e1 EXCEPT !.cx = newLen] ELSE e1

\* MoveCursor whose vertical keys put the cursor at column 0
MoveCursor_zero(e, key) ==
    LET hasRow == e.cy < e.totalRows
        rowLen == IF hasRow THEN Len(e.row[e.cy + 1].chars) ELSE 0
        e1 == CASE key = ARROW_LEFT ->
                     IF e.cx # 0 THEN [e EXCEPT !.cx = @ - 1]
                     ELSE IF e.cy > 0
                          THEN [e EXCEPT !.cy = @ - 1, !.cx = Len(e.row[e.cy].chars)]
                          ELSE e
                [] key = ARROW_RIGHT ->
                     IF hasRow /\ e.cx < rowLen THEN [e EXCEPT !.cx = @ + 1]
                     ELSE IF hasRow /\ e.cx = rowLen THEN [e EXCEPT !.cy = @ + 1, !.cx = 0]
                     ELSE e
                [] key = ARROW_UP ->
                     IF e.cy # 0 THEN [e EXCEPT !.cy = @ - 1] ELSE e
                [] key = ARROW_DOWN ->
                     IF e.cy < e.totalRows THEN [e EXCEPT !.cy = @ + 1] ELSE e
                [] OTHER -> e
        newLen == IF e1.cy >= e1.totalRows THEN 0 ELSE Len(e1.row[e1.cy + 1].chars)
    IN IF key \in {ARROW_UP, ARROW_DOWN} THEN [e1 EXCEPT !.cx = 0]
       ELSE IF e1.cx > newLen THEN [e1 EXCEPT !.cx = newLen] ELSE e1

\* MoveCursor whose ARROW_DOWN also leaves the line after the last row
MoveCursor_below(e, key) ==
    LET hasRow == e.cy < e.totalRows
        rowLen == IF hasRow THEN Len(e.row[e.cy + 1].chars) ELSE 0
        e1 == CASE key = ARROW_LEFT ->
                     IF e.cx # 0 THEN [e EXCEPT !.cx = @ - 1]
                     ELSE IF e.cy > 0
                          THEN [e EXCEPT !.cy = @ - 1, !.cx = Len(e.row[e.cy].chars)]
                          ELSE e
                [] key = ARROW_RIGHT ->
                     IF hasRow /\ e.cx < rowLen THEN [e EXCEPT !.cx = @ + 1]
                     ELSE IF hasRow /\ e.cx = rowLen THEN [e EXCEPT !.cy = @ + 1, !.cx = 0]
                     ELSE e
                [] key = ARROW_UP ->
                     IF e.cy # 0 THEN [e EXCEPT !.cy = @ - 1] ELSE e
                [] key = ARROW_DOWN ->
                     IF e.cy <= e.totalRows THEN [e EXCEPT !.cy = @ + 1] ELSE e
                [] OTHER -> e
        newLen == IF e1.cy >= e1.totalRows THEN 0 ELSE Len(e1.row[e1.cy + 1].chars)
    IN IF e1.cx > newLen THEN [e1 EXCEPT !.cx = newLen] ELSE e1

\* e.MoveCursor(key)
MoveCursor(e, key) ==
    LET hasRow == e.cy < e.totalRows
        rowLen == IF hasRow THEN Len(e.row[e.cy + 1].chars) ELSE 0
        e1 == CASE key = ARROW_LEFT ->
                     IF e.cx # 0 THEN [e EXCEPT !.cx = @ - 1]
                     ELSE IF e.cy > 0
                          THEN [e EXCEPT !.cy = @ - 1, !.cx = Len(e.row[e.cy].chars)]
                          ELSE e
                [] key = ARROW_RIGHT ->
                     IF hasRow /\ e.cx < rowLen THEN [e EXCEPT !.cx = @ + 1]
                     ELSE IF hasRow /\ e.cx = rowLen THEN [e EXCEPT !.cy = @ + 1, !.cx = 0]
                     ELSE e
                [] key = ARROW_UP ->
                     IF e.cy # 0 THEN [e EXCEPT !.cy = @ - 1] ELSE e
                [] key = ARROW_DOWN ->
                     IF e.cy < e.totalRows THEN [e EXCEPT !.cy = @ + 1] ELSE e
                [] OTHER -> e
        newLen == IF e1.cy >= e1.totalRows THEN 0 ELSE Len(e1.row[e1.cy + 1].chars)
    IN IF e1.cx > newLen THEN [e1 EXCEPT !.cx = newLen] ELSE e1

\* for range n { e.MoveCursor(key) }
RECURSIVE MoveCursorTimes(_, _, _)
MoveCursorTimes(e, key, n) ==
    IF n <= 0 THEN e ELSE MoveCursorTimes(MoveCursor(e, key), key, n - 1)

\* Scroll with the row offset one row short when the cursor is below the
\* window
Scroll_short(e) ==
    LET rx == IF e.cy < e.totalRows THEN cxToRx(e.row[e.cy + 1], e.cx) ELSE 0
        ro1 == IF e.cy < e.rowOffset THEN e.cy ELSE e.rowOffset
        ro2 == IF e.cy >= ro1 + e.screenRows THEN e.cy - e.screenRows ELSE ro1
        co1 == IF rx < e.colOffset THEN rx ELSE e.colOffset
        co2 == IF rx >= co1 + e.screenCols THEN rx - e.screenCols + 1 ELSE co1
    IN [e EXCEPT !.rx = rx, !.rowOffset = ro2, !.colOffset = co2]

\* Scroll putting the cursor on the first line and first column of the
\* window whenever it was outside
Scroll_top(e) ==
    LET rx == IF e.cy < e.totalRows THEN cxToRx(e.row[e.cy + 1], e.cx) ELSE 0
        ro1 == IF e.cy < e.rowOffset THEN e.cy ELSE e.rowOffset
        ro2 == IF e.cy >= ro1 + e.screenRows THEN e.cy ELSE ro1
        co1 == IF rx < e.colOffset THEN rx ELSE e.colOffset
        co2 == IF rx >= co1 + e.screenCols THEN rx ELSE co1
    IN [e EXCEPT !.rx = rx, !.rowOffset = ro2, !.colOffset = co2]

\* e.Scroll()
Scroll(e) ==
    LET rx == IF e.cy < e.totalRows THEN cxToRx(e.row[e.cy + 1], e.cx) ELSE 0
        ro1 == IF e.cy < e.rowOffset THEN e.cy ELSE e.rowOffset
        ro2 == IF e.cy >= ro1 + e.screenRows THEN e.cy - e.screenRows + 1 ELSE ro1
        co1 == IF rx < e.colOffset THEN rx ELSE e.colOffset
        co2 == IF rx >= co1 + e.screenCols THEN rx - e.screenCols + 1 ELSE co1
    IN [e EXCEPT !.rx = rx, !.rowOffset = ro2, !.colOffset = co2]

\* ANSI graphics codes (ansi.go)
ANSI_REVERSE == 7
ANSI_RESET_REVERSE == 27
ANSI_COLOR_RED == 31
ANSI_COLOR_GREEN == 32
ANSI_COLOR_YELLOW == 33
ANSI_COLOR_BLUE == 34
ANSI_COLOR_MAGENTA == 35
ANSI_COLOR_CYAN == 36
ANSI_COLOR_DEFAULT == 39

\* syntaxToGraphics(hl): the pair <<color, style>>
syntaxToGraphics(hl) ==
    CASE hl \in {HL_COMMENT, HL_MLCOMMENT} -> <<ANSI_COLOR_CYAN, 0>>
      [] hl = HL_KEYWORD1 -> <<ANSI_COLOR_YELLOW, 0>>
      [] hl = HL_KEYWORD2 -> <<ANSI_COLOR_GREEN, 0>>
      [] hl = HL_STRING -> <<ANSI_COLOR_MAGENTA, 0>>
      [] hl = HL_NUMBER -> <<ANSI_COLOR_RED, 0>>
      [] hl = HL_MATCH -> <<ANSI_COLOR_BLUE, ANSI_REVERSE>>
      [] hl = HL_CONTROL -> <<ANSI_COLOR_RED, ANSI_REVERSE>>
      [] OTHER -> <<ANSI_COLOR_DEFAULT, 0>>

\* What is appended to the frame is a sequence of items: <<"sgr", n>> the
\* escape sequence ESC [ n m, <<"ch", c>> the character c, <<"el", 0>>
\* CLEAR_LINE.

RECURSIVE DrawChars(_, _, _, _, _)

\* the character loop of DrawRows without the reset of the style before a
\* Normal character
DrawChars_styled(render, hl, start, lineLen, s) ==
    IF s.j >= lineLen THEN s
    ELSE LET c == render[start + s.j + 1]
             h == hl[start + s.j + 1]
             g == syntaxToGraphics(h)
             reset(style) == IF style = ANSI_REVERSE
                             THEN << <<"sgr", ANSI_RESET_REVERSE>> >> ELSE <<>>
             normal == [j |-> s.j + 1,
                        out |-> s.out
                                \o (IF s.currentColor # -1
                                    THEN << <<"sgr", ANSI_COLOR_DEFAULT>> >> ELSE <<>>)
                                \o << <<"ch", c>> >>,
                        currentColor |-> -1,
                        currentStyle |-> 0]
             other == [j |-> s.j + 1,
                       out |-> s.out
                               \o (IF s.currentStyle # g[2]
                                   THEN reset(s.currentStyle)
                                        \o (IF g[2] # 0 THEN << <<"sgr", g[2]>> >> ELSE <<>>)
                                   ELSE <<>>)
                               \o (IF g[1] # s.currentColor
                                   THEN << <<"sgr", g[1]>> >> ELSE <<>>)
                               \o << <<"ch", c>> >>,
                       currentColor |-> g[1],
                       currentStyle |-> g[2]]
         IN DrawChars(render, hl, start, lineLen,
                      IF h = HL_NORMAL THEN normal ELSE other)

\* the character loop of DrawRows, for j := range lineLen, from round s.j;
\* s = [j, out, currentColor, currentStyle], out what the loop has appended.
\* reset is getStyleResetCode: of the styles syntaxToGraphics returns only
\* ANSI_REVERSE has a reset code, the others map to 0 and nothing is written.
DrawChars(render, hl, start, lineLen, s) ==
    IF s.j >= lineLen THEN s
    ELSE LET c == render[start + s.j + 1]
             h == hl[start + s.j + 1]
             g == syntaxToGraphics(h)
             reset(style) == IF style = ANSI_REVERSE
                             THEN << <<"sgr", ANSI_RESET_REVERSE>> >> ELSE <<>>
             normal == [j |-> s.j + 1,
                        out |-> s.out
                                \o (IF s.currentColor # -1
                                    THEN << <<"sgr", ANSI_COLOR_DEFAULT>> >> ELSE <<>>)
                                \o (IF s.currentStyle # 0
                                    THEN reset(s.currentStyle) ELSE <<>>)
                                \o << <<"ch", c>> >>,
                        currentColor |-> -1,
                        currentStyle |-> 0]
             other == [j |-> s.j + 1,
                       out |-> s.out
                               \o (IF s.currentStyle # g[2]
                                   THEN reset(s.currentStyle)
                                        \o (IF g[2] # 0 THEN << <<"sgr", g[2]>> >> ELSE <<>>)
                                   ELSE <<>>)
                               \o (IF g[1] # s.currentColor
                                   THEN << <<"sgr", g[1]>> >> ELSE <<>>)
                               \o << <<"ch", c>> >>,
                       currentColor |-> g[1],
                       currentStyle |-> g[2]]
         IN DrawChars(render, hl, start, lineLen,
                      IF h = HL_NORMAL THEN normal ELSE other)

\* e.DrawRows(abuf): the sequence of the screen lines, each the sequence of
\* the items appended for it
DrawRows(e) ==
    LET welcome == <<75, 73, 71, 79, 32, 101, 100, 105, 116, 111, 114, 32, 45, 45, 32, 118, 101, 114, 115, 105, 111, 110, 32, 49, 46, 48, 46, 48>>
        min(a, b) == IF a < b THEN a ELSE b
        max(a, b) == IF a > b THEN a ELSE b
        chars(t) == [i \in 1..Len(t) |-> <<"ch", t[i]>>]
        tilde == << <<"ch", 126>> >>
        welcomelen == min(Len(welcome), e.screenCols)
        padding == (e.screenCols - welcomelen) \div 2
        greeting == (IF padding > 0 THEN tilde ELSE <<>>)
                    \o [i \in 1..(IF padding > 0 THEN padding - 1 ELSE 0) |-> <<"ch", 32>>]
                    \o chars(SubSeq(welcome, 1, welcomelen))
        text(filerow) ==
            LET row == e.row[filerow + 1]
                lineLen == min(max(Len(row.render) - e.colOffset, 0), e.screenCols)
                end == DrawChars(row.render, row.hl, e.colOffset, lineLen,
                                 [j |-> 0, out |-> <<>>,
                                  currentColor |-> -1, currentStyle |-> 0])
            IN end.out \o << <<"sgr", ANSI_COLOR_DEFAULT>> >>
                       \o (IF end.currentStyle = ANSI_REVERSE
                           THEN << <<"sgr", ANSI_RESET_REVERSE>> >> ELSE <<>>)
        line(y) ==
            (IF y + e.rowOffset >= e.totalRows
             THEN IF e.totalRows = 0 /\ y = e.screenRows \div 3 THEN greeting ELSE tilde
             ELSE text(y + e.rowOffset))
            \o << <<"el", 0>>, <<"ch", 13>>, <<"ch", 10>> >>
    IN [y1 \in 1..e.screenRows |-> line(y1 - 1)]

\* e.RefreshScreen(): Scroll, then the frame is written to the terminal
RefreshScreen(e) == Scroll(e)

\* e.Redraw(), size what getWindowsSize returned: rows, cols and whether
\* err is nil.  The three results are assigned before err is looked at.
Redraw(e, size) ==
    LET e1 == [e EXCEPT !.screenRows = size.rows, !.screenCols = size.cols]
        e2 == IF size.ok THEN e1 ELSE ShowError(e1, <<"%v">>)
    IN RefreshScreen([e2 EXCEPT !.screenRows = @ - 2])

(***************************************************************************)
(* Files.  A file name is a sequence of code points, <<>> the empty name.  *)
(* A file is the sequence of its lines, or NoFile when it cannot be        *)
(* opened.                                                                 *)
(***************************************************************************)
NoFile == "ENOENT"

\* strings.LastIndex(filename, "."), 0-based, -1 when absent
LastIndexDot(filename) ==
    LET dots == {k \in 1..Len(filename) : filename[k] = 46}
    IN IF dots = {} THEN -1
       ELSE (CHOOSE k \in dots : \A m \in dots : m <= k) - 1

\* strings.Contains(s, p)
Contains(s, p) == \E i \in 0..Len(s) : HasPrefix(s, i, p)

\* the loop over all rows in SelectSyntaxHighlight
RECURSIVE UpdateSyntaxFrom(_, _)
UpdateSyntaxFrom(e, filerow) ==
    IF filerow >= e.totalRows THEN e
    ELSE UpdateSyntaxFrom(UpdateSyntax(e, filerow), filerow + 1)

\* e.SelectSyntaxHighlight()
SelectSyntaxHighlight(e) ==
    LET e0 == [e EXCEPT !.syntax = NoSyntax]
        filename == e.filename
        lastDot == LastIndexDot(filename)
        ext == IF lastDot # -1 THEN SubSeq(filename, lastDot + 1, Len(filename)) ELSE <<>>
        Matches(pattern) ==
            LET isExt == pattern[1] = 46
            IN \/ (isExt /\ ext # <<>> /\ ext = pattern)
               \/ (~isExt /\ Contains(filename, pattern))
        hits == {j \in 1..Len(HLDB_ENTRIES) :
                    \E i \in 1..Len(HLDB_ENTRIES[j].filematch) :
                        Matches(HLDB_ENTRIES[j].filematch[i])}
    IN IF filename = <<>> \/ hits = {} THEN e0
       ELSE UpdateSyntaxFrom([e0 EXCEPT !.syntax = CHOOSE j \in hits : \A m \in hits : j <= m], 0)

\* the trailing \n and \r that Open removes from a scanned line
RECURSIVE StripLineEnd(_)
StripLineEnd(line) ==
    IF Len(line) > 0 /\ (line[Len(line)] = 10 \/ line[Len(line)] = 13)
    THEN StripLineEnd(SubSeq(line, 1, Len(line) - 1))
    ELSE line

\* the scanner loop of Open
RECURSIVE InsertLines(_, _, _)
InsertLines(e, lines, k) ==
    IF k > Len(lines) THEN e
    ELSE LET runes == StripLineEnd(lines[k])
         IN InsertLines(InsertRow(e, e.totalRows, runes, Len(runes)), lines, k + 1)

\* e.Open(filename) returns an error exactly when the file cannot be opened
OpenFails(file) == file = NoFile

\* e.Open(filename): the editor it leaves behind
Open(e, filename, file) ==
    LET e0 == [e EXCEPT !.filename = filename] IN
    IF OpenFails(file) THEN e0
    ELSE LET e1 == [e0 EXCEPT !.row = <<>>, !.totalRows = 0, !.cx = 0, !.cy = 0,
                              !.rowOffset = 0, !.colOffset = 0, !.rx = 0]
             e2 == InsertLines(SelectSyntaxHighlight(e1), file, 1)
         IN [e2 EXCEPT !.dirty = 0]

\* SaveWrite that leaves dirty as it is after a complete write
SaveWrite_keep(e, io) ==
    CASE io \in {"open error", "truncate error", "write error"} ->
              SetStatusMessage(e, <<"Can't save! I/O error: %v", io>>)
      [] io = "short write" ->
              SetStatusMessage(e, <<"Can't save! Partial write: %d/%d bytes">>)
      [] OTHER ->
              SetStatusMessage(e, <<"%d bytes written to disk">>)

\* SaveWrite that takes a short write for a complete one
SaveWrite_short(e, io) ==
    CASE io \in {"open error", "truncate error", "write error"} ->
              SetStatusMessage(e, <<"Can't save! I/O error: %v", io>>)
      [] OTHER ->
              [SetStatusMessage(e, <<"%d bytes written to disk">>) EXCEPT !.dirty = 0]

\* the part of Save after the file name is known: io is the outcome of
\* OpenFile / Truncate / Write
SaveWrite(e, io) ==
    CASE io \in {"open error", "truncate error", "write error"} ->
              SetStatusMessage(e, <<"Can't save! I/O error: %v", io>>)
      [] io = "short write" ->
              SetStatusMessage(e, <<"Can't save! Partial write: %d/%d bytes">>)
      [] OTHER ->
              [SetStatusMessage(e, <<"%d bytes written to disk">>) EXCEPT !.dirty = 0]

\* e.Save(): promptName is what the "Save as" prompt returns when it is shown
Save(e, promptName, io) ==
    IF e.filename = <<>> /\ promptName = <<>>
    THEN SetStatusMessage([e EXCEPT !.filename = promptName], <<"Save aborted">>)
    ELSE SaveWrite(IF e.filename = <<>>
                   THEN SelectSyntaxHighlight([e EXCEPT !.filename = promptName])
                   ELSE e,
                   io)

(***************************************************************************)
(* Prompt and search.  The prompt buffer is a byte sequence: a typed key   *)
(* is appended as the UTF-8 encoding of its code point, and the search     *)
(* query is that byte sequence decoded to code points again.  Keys are     *)
(* below 2048, so an encoding has one or two bytes.                        *)
(***************************************************************************)
\* []byte(string(key))
EncodeRune(r) ==
    IF r < 128 THEN <<r>> ELSE <<192 + (r \div 64), 128 + (r % 64)>>

\* []rune(string(b)): a byte that starts no valid encoding decodes to U+FFFD
RECURSIVE DecodeRunes(_)
DecodeRunes(b) ==
    IF b = <<>> THEN <<>>
    ELSE IF b[1] < 128 THEN <<b[1]>> \o DecodeRunes(Tail(b))
    ELSE IF b[1] >= 194 /\ b[1] <= 223 /\ Len(b) >= 2 /\ b[2] >= 128 /\ b[2] <= 191
         THEN <<(b[1] - 192) * 64 + (b[2] - 128)>> \o DecodeRunes(SubSeq(b, 3, Len(b)))
    ELSE <<65533>> \o DecodeRunes(Tail(b))

\* runeIndexOf(haystack, needle)
runeIndexOf(haystack, needle) ==
    IF Len(needle) = 0 THEN 0
    ELSE IF Len(needle) > Len(haystack) THEN -1
    ELSE LET found == {i \in 0..(Len(haystack) - Len(needle)) : HasPrefix(haystack, i, needle)}
         IN IF found = {} THEN -1 ELSE CHOOSE i \in found : \A j \in found : i <= j

\* savedHl == nil
NilHl == <<-1>>

\* the package variables lastMatch, direction, savedHlLine and savedHl as
\* they are when the program starts
FindVars == [lastMatch |-> -1, direction |-> 1, savedHlLine |-> 0, savedHl |-> NilHl]

\* copy(dst, src)
CopyInto(dst, src) ==
    [k \in 1..Len(dst) |-> IF k <= Len(src) THEN src[k] ELSE dst[k]]

\* RestoreHl leaving the tags as they are
RestoreHl_skip(e, g) == e

\* the start of FindCallback: the tags saved by the previous call are put
\* back (savedHl itself is cleared by the caller of this operator)
RestoreHl(e, g) ==
    IF g.savedHl # NilHl
    THEN [e EXCEPT !.row[g.savedHlLine + 1].hl =
                       CopyInto(e.row[g.savedHlLine + 1].hl, g.savedHl)]
    ELSE e

\* the switch on the key in FindCallback (keys other than Enter and Escape)
\* and the test of lastMatch after it
FindDirection(g, key) ==
    CASE key \in {ARROW_RIGHT, ARROW_DOWN} -> [g EXCEPT !.direction = 1]
      [] key \in {ARROW_LEFT, ARROW_UP} ->
             [g EXCEPT !.direction = IF g.lastMatch = -1 THEN 1 ELSE -1]
      [] OTHER -> [g EXCEPT !.lastMatch = -1, !.direction = 1]

\* FindWrap that does not wrap below row 0
FindWrap_stuck(current, direction, totalRows) ==
    IF current + direction = -1 THEN 0
    ELSE IF current + direction = totalRows THEN 0
    ELSE current + direction

\* current += direction with the wrap at both ends
FindWrap(current, direction, totalRows) ==
    IF current + direction = -1 THEN totalRows - 1
    ELSE IF current + direction = totalRows THEN 0
    ELSE current + direction

\* the body of the search loop for a row that contains the query at render
\* column match
FindHit(e, g, query, current, match) ==
    [e |-> [e EXCEPT !.cy = current,
                     !.cx = rxToCx(e.row[current + 1], match),
                     !.rowOffset = e.totalRows,
                     !.row[current + 1].hl =
                         SetRange(e.row[current + 1].hl, match, Len(query), HL_MATCH)],
     g |-> [g EXCEPT !.lastMatch = current, !.savedHlLine = current,
                     !.savedHl = e.row[current + 1].hl]]

\* the search loop of FindCallback with n iterations left; examined lists
\* the rows inspected so far
RECURSIVE FindLoop(_, _, _, _, _, _)
RECURSIVE FindLoopAt(_, _, _, _, _, _, _)
FindLoop(e, g, query, current, n, examined) ==
    IF n = 0 THEN [e |-> e, g |-> g, examined |-> examined]
    ELSE FindLoopAt(e, g, query, FindWrap(current, g.direction, e.totalRows), n, examined,
                    FindWrap(current, g.direction, e.totalRows) + 1)

FindLoopAt(e, g, query, current, n, examined, k) ==
    IF runeIndexOf(e.row[k].render, query) # -1
    THEN [examined |-> Append(examined, current)]
            @@ FindHit(e, g, query, current, runeIndexOf(e.row[k].render, query))
    ELSE FindLoop(e, g, query, current, n - 1, Append(examined, current))

\* the part of FindCallback after the saved tags are restored and cleared
FindSearch(e, g, query, key) ==
    IF key \in {13, 27}
    THEN [e |-> e, g |-> [g EXCEPT !.lastMatch = -1, !.direction = 1], examined |-> <<>>]
    ELSE FindLoop(e, FindDirection(g, key), DecodeRunes(query),
                  FindDirection(g, key).lastMatch, e.totalRows, <<>>)

\* e.FindCallback(query, key) with the package variables g: the editor and
\* the package variables it leaves behind
FindCallback(e, g, query, key) ==
    FindSearch(RestoreHl(e, g), [g EXCEPT !.savedHl = NilHl], query, key)

SearchPrompt == "Search: %s (Use ESC/Arrows/Enter)"

\* the head of the Prompt loop: the prompt with the text typed so far is
\* shown and the screen refreshed, then the next key is awaited
PromptHead(e, prompt, buf) == RefreshScreen(SetStatusMessage(e, <<prompt, buf>>))

\* the callback call in Prompt for the search prompt; ret says how the
\* switch on the key was left: "loop" for another iteration, "escape" for
\* return "", "enter" for return string(buf)
PromptCall(r, buf, ret) ==
    [e |-> r.e, g |-> r.g, examined |-> r.examined, buf |-> buf, ret |-> ret]

\* one iteration of the Prompt loop of the search, after readKey returned
\* key
PromptKey(e, g, buf, key) ==
    CASE key \in {DELETE_KEY, BACKSPACE} ->
             PromptCall(FindCallback(e, g, SubSeq(buf, 1, Len(buf) - 1), key),
                        SubSeq(buf, 1, Len(buf) - 1), "loop")
      [] key = 27 ->
             PromptCall(FindCallback(SetStatusMessage(e, <<"">>), g, buf, key), buf, "escape")
      [] key = 13 ->
             IF Len(buf) # 0
             THEN PromptCall(FindCallback(SetStatusMessage(e, <<"">>), g, buf, key),
                             buf, "enter")
             ELSE [e |-> e, g |-> g, examined |-> <<>>, buf |-> buf, ret |-> "loop"]
      [] key \in {ARROW_LEFT, ARROW_RIGHT, ARROW_UP, ARROW_DOWN} ->
             PromptCall(FindCallback(e, g, buf, key), buf, "loop")
      [] OTHER ->
             IF ~isControl(key)
             THEN PromptCall(FindCallback(e, g, buf \o EncodeRune(key), key),
                             buf \o EncodeRune(key), "loop")
             ELSE [e |-> e, g |-> g, examined |-> <<>>, buf |-> buf, ret |-> "loop"]

\* FindEnd that does not put the row offset back
FindEnd_offset(e, saved, ret) ==
    IF ret = "escape"
    THEN [e EXCEPT !.cx = saved.cx, !.cy = saved.cy, !.colOffset = saved.colOffset]
    ELSE e

\* the end of Find: saved holds savedCx, savedCy, savedColOffset and
\* savedRowOffset, and the query is "" exactly when Prompt was left by Escape
FindEnd(e, saved, ret) ==
    IF ret = "escape"
    THEN [e EXCEPT !.cx = saved.cx, !.cy = saved.cy,
                   !.colOffset = saved.colOffset, !.rowOffset = saved.rowOffset]
    ELSE e

\* the Prompt loop of a search in which the keys keys[k], keys[k+1], ... are
\* read one after the other, up to the key on which Prompt returns
RECURSIVE PromptRun(_, _, _, _, _)
RECURSIVE PromptRunNext(_, _, _)
PromptRun(e, g, buf, keys, k) ==
    IF k > Len(keys) THEN [e |-> e, g |-> g, examined |-> <<>>, buf |-> buf, ret |-> "loop"]
    ELSE PromptRunNext(PromptKey(PromptHead(e, SearchPrompt, buf), g, buf, keys[k]), keys, k)

PromptRunNext(r, keys, k) ==
    IF r.ret = "loop" THEN PromptRun(r.e, r.g, r.buf, keys, k + 1) ELSE r

\* what Find does with the result r of Prompt, e0 the editor Find was
\* called on
FindReturn(r, e0) ==
    FindEnd(r.e, [cx |-> e0.cx, cy |-> e0.cy,
                  colOffset |-> e0.colOffset, rowOffset |-> e0.rowOffset], r.ret)

\* e.Find() for a search in which the user presses keys, the last of which
\* makes Prompt return.  Between two searches lastMatch is -1, direction 1
\* and savedHl nil, and savedHlLine is not read while savedHl is nil.
Find(e, keys) == FindReturn(PromptRun(e, FindVars, <<>>, keys, 1), e)

(***************************************************************************)
(* Modal screens.  A modal screen puts its own rows into e.row while it is *)
(* shown; the ModalManager keeps the EditorState taken when it was made.   *)
(***************************************************************************)
\* e.getEditorState()
getEditorState(e) ==
    [rows |-> e.row, totalRows |-> e.totalRows, cx |-> e.cx, cy |-> e.cy,
     colOffset |-> e.colOffset, rowOffset |-> e.rowOffset]

\* e.setEditorState(state)
setEditorState(e, state) ==
    [e EXCEPT !.row = state.rows, !.totalRows = state.totalRows,
              !.cx = state.cx, !.cy = state.cy,
              !.colOffset = state.colOffset, !.rowOffset = state.rowOffset,
              !.mode = EDIT_MODE]

\* m.setupModalDisplay(content, mode), message the screen's status message
setupModalDisplay(e, content, mode, message) ==
    SetStatusMessage([e EXCEPT !.mode = mode, !.row = content, !.totalRows = Len(content),
                               !.cx = 0, !.cy = 0, !.colOffset = 0, !.rowOffset = 0],
                     <<"%s", message>>)

\* m.restoreState()
restoreState(e, savedState) ==
    SetStatusMessage(setEditorState(e, savedState), <<"Returned to editor">>)

\* row.Update(e) for a row of a modal screen, which is not in e.row: render
\* and tags are made as for a buffer row; the scan starts inside a comment
\* when buffer row row.idx-1 ends in one, and when the row's own flag changed
\* and the buffer has a row row.idx+1, that buffer row is highlighted again.
\* The result is the row and the editor.
screenRowUpdate(e, idx, chars, render) ==
    LET row == [idx |-> idx, chars |-> chars, render |-> render,
                hl |-> Zeros(Len(render)), hlOpenComment |-> FALSE]
        end(r) ==
            [row |-> [row EXCEPT !.hl = r.hl, !.hlOpenComment = r.inComment],
             e |-> IF row.hlOpenComment # r.inComment /\ idx + 1 < e.totalRows
                   THEN UpdateSyntax(e, idx + 1)
                   ELSE e]
    IN IF e.syntax = NoSyntax THEN [row |-> row, e |-> e]
       ELSE end(ScanRow(render, HLDB_ENTRIES[e.syntax], 0, Zeros(Len(render)), TRUE, 0,
                        /\ idx > 0
                        /\ idx - 1 < Len(e.row)
                        /\ e.row[idx].hlOpenComment))

\* the rows of a modal screen made from n of the lines, from lines[k] on,
\* each updated in turn (the rounds are taken half by half): the rows and
\* the editor after them
RECURSIVE updateRows(_, _, _, _)
updateRows(e, lines, k, n) ==
    LET one(u) == [content |-> <<u.row>>, e |-> u.e]
        join(left, right) == [content |-> left.content \o right.content, e |-> right.e]
        rest(left) == join(left, updateRows(left.e, lines, k + (n \div 2), n - (n \div 2)))
    IN IF n = 0 THEN [content |-> <<>>, e |-> e]
       ELSE IF n = 1
       THEN one(screenRowUpdate(e, lines[k].idx, lines[k].chars,
                                RenderChars(lines[k].chars, 1, <<>>)))
       ELSE rest(updateRows(e, lines, k, n \div 2))

\* the lines of the help screen (KIGO_VERSION is "1.0.0")
helpContent ==
    <<
    \* === KIGO HELP ===
    <<61, 61, 61, 32, 75, 73, 71, 79, 32, 72, 69, 76, 80, 32, 61, 61, 61>>,
    \* (empty)
    <<>>,
    \* NAVIGATION:
    <<78, 65, 86, 73, 71, 65, 84, 73, 79, 78, 58>>,
    \*   Arrow Keys       - Move cursor
    <<32, 32, 65, 114, 114, 111, 119, 32, 75, 101, 121, 115, 32, 32, 32,
           32, 32, 32, 32, 45, 32, 77, 111, 118, 101, 32, 99, 117, 114,
           115, 111, 114>>,
    \*   Page Up/Down     - Scroll by page
    <<32, 32, 80, 97, 103, 101, 32, 85, 112, 47, 68, 111, 119, 110, 32,
           32, 32, 32, 32, 45, 32, 83, 99, 114, 111, 108, 108, 32, 98,
           121, 32, 112, 97, 103, 101>>,
    \*   Home/End         - Move to line start/end
    <<32, 32, 72, 111, 109, 101, 47, 69, 110, 100, 32, 32, 32, 32, 32, 32,
           32, 32, 32, 45, 32, 77, 111, 118, 101, 32, 116, 111, 32, 108,
           105, 110, 101, 32, 115, 116, 97, 114, 116, 47, 101, 110, 100>>,
    \* (empty)
    <<>>,
    \* EDITING:
    <<69, 68, 73, 84, 73, 78, 71, 58>>,
    \*   Ctrl+S           - Save file
    <<32, 32, 67, 116, 114, 108, 43, 83, 32, 32, 32, 32, 32, 32, 32, 32,
           32, 32, 32, 45, 32, 83, 97, 118, 101, 32, 102, 105, 108, 101>>,
    \*   Ctrl+Q           - Quit (with confirmation if unsaved)
    <<32, 32, 67, 116, 114, 108, 43, 81, 32, 32, 32, 32, 32, 32, 32, 32,
           32, 32, 32, 45, 32, 81, 117, 105, 116, 32, 40, 119, 105, 116,
           104, 32, 99, 111, 110, 102, 105, 114, 109, 97, 116, 105, 111,
           110, 32, 105, 102, 32, 117, 110, 115, 97, 118, 101, 100, 41>>,
    \*   Delete/Backspace - Delete characters
    <<32, 32, 68, 101, 108, 101, 116, 101, 47, 66, 97, 99, 107, 115, 112,
           97, 99, 101, 32, 45, 32, 68, 101, 108, 101, 116, 101, 32, 99,
           104, 97, 114, 97, 99, 116, 101, 114, 115>>,
    \* (empty)
    <<>>,
    \* SEARCH:
    <<83, 69, 65, 82, 67, 72, 58>>,
    \*   Ctrl+F           - Find text
    <<32, 32, 67, 116, 114, 108, 43, 70, 32, 32, 32, 32, 32, 32, 32, 32,
           32, 32, 32, 45, 32, 70, 105, 110, 100, 32, 116, 101, 120, 116>>,
    \*   Arrow Up/Down    - Navigate search results
    <<32, 32, 65, 114, 114, 111, 119, 32, 85, 112, 47, 68, 111, 119, 110,
           32, 32, 32, 32, 45, 32, 78, 97, 118, 105, 103, 97, 116, 101,
           32, 115, 101, 97, 114, 99, 104, 32, 114, 101, 115, 117, 108,
           116, 115>>,
    \*   Escape           - Cancel search
    <<32, 32, 69, 115, 99, 97, 112, 101, 32, 32, 32, 32, 32, 32, 32, 32,
           32, 32, 32, 45, 32, 67, 97, 110, 99, 101, 108, 32, 115, 101,
           97, 114, 99, 104>>,
    \* (empty)
    <<>>,
    \* FILE OPERATIONS:
    <<70, 73, 76, 69, 32, 79, 80, 69, 82, 65, 84, 73, 79, 78, 83, 58>>,
    \*   Ctrl+E           - Open file explorer
    <<32, 32, 67, 116, 114, 108, 43, 69, 32, 32, 32, 32, 32, 32, 32, 32,
           32, 32, 32, 45, 32, 79, 112, 101, 110, 32, 102, 105, 108, 101,
           32, 101, 120, 112, 108, 111, 114, 101, 114>>,
    \* (empty)
    <<>>,
    \* OTHER:
    <<79, 84, 72, 69, 82, 58>>,
    \*   Ctrl+H           - Show this help
    <<32, 32, 67, 116, 114, 108, 43, 72, 32, 32, 32, 32, 32, 32, 32, 32,
           32, 32, 32, 45, 32, 83, 104, 111, 119, 32, 116, 104, 105, 115,
           32, 104, 101, 108, 112>>,
    \*   Ctrl+R           - Redraw screen
    <<32, 32, 67, 116, 114, 108, 43, 82, 32, 32, 32, 32, 32, 32, 32, 32,
           32, 32, 32, 45, 32, 82, 101, 100, 114, 97, 119, 32, 115, 99,
           114, 101, 101, 110>>,
    \* (empty)
    <<>>,
    \* About KIGO:
    <<65, 98, 111, 117, 116, 32, 75, 73, 71, 79, 58>>,
    \*   Version: 1.0.0
    <<32, 32, 86, 101, 114, 115, 105, 111, 110, 58, 32, 49, 46, 48, 46,
           48>>,
    \*   A simple terminal-based text editor written in Go
    <<32, 32, 65, 32, 115, 105, 109, 112, 108, 101, 32, 116, 101, 114,
           109, 105, 110, 97, 108, 45, 98, 97, 115, 101, 100, 32, 116,
           101, 120, 116, 32, 101, 100, 105, 116, 111, 114, 32, 119, 114,
           105, 116, 116, 101, 110, 32, 105, 110, 32, 71, 111>>,
    \* (empty)
    <<>>,
    \* Press 'q' or Escape to close this help screen.
    <<80, 114, 101, 115, 115, 32, 39, 113, 39, 32, 111, 114, 32, 69, 115,
           99, 97, 112, 101, 32, 116, 111, 32, 99, 108, 111, 115, 101, 32,
           116, 104, 105, 115, 32, 104, 101, 108, 112, 32, 115, 99, 114,
           101, 101, 110, 46>>
    >>

\* NewHelpScreen(editor): line i becomes a row with idx i and is updated;
\* the rows of the screen and the editor after they were built
NewHelpScreen(e) ==
    updateRows(e, [i \in 1..Len(helpContent) |-> [idx |-> i - 1, chars |-> helpContent[i]]],
               1, Len(helpContent))

\* h.HandleKey(key, e) for a help screen of n rows: the editor, whether the
\* screen closes and whether the state is restored
HelpHandleKey(e, key, n) ==
    LET \* one round of the loops moving the view up or down
        up(e1) ==
            IF e1.cy > 0 THEN [e1 EXCEPT !.cy = @ - 1]
            ELSE IF e1.rowOffset > 0 THEN [e1 EXCEPT !.rowOffset = @ - 1]
            ELSE e1
        down(e1) ==
            IF e1.cy < e1.screenRows - 1 /\ e1.cy < n - 1 THEN [e1 EXCEPT !.cy = @ + 1]
            ELSE IF e1.rowOffset + e1.screenRows < n THEN [e1 EXCEPT !.rowOffset = @ + 1]
            ELSE e1
        RECURSIVE page(_, _)
        page(e1, i) ==
            IF i >= e1.screenRows THEN e1
            ELSE IF key = PAGE_UP
                 THEN IF e1.cy > 0 \/ e1.rowOffset > 0 THEN page(up(e1), i + 1) ELSE e1
                 ELSE IF e1.rowOffset + e1.cy < n - 1 THEN page(down(e1), i + 1) ELSE e1
    IN
    IF key \in {113, 81, 27} THEN [e |-> e, close |-> TRUE, restore |-> TRUE]
    ELSE [close |-> FALSE, restore |-> FALSE,
          e |-> CASE key = ARROW_UP -> up(e)
                  [] key = ARROW_DOWN -> down(e)
                  [] key \in {PAGE_UP, PAGE_DOWN} -> page(e, 0)
                  [] key = HOME_KEY -> [e EXCEPT !.cy = 0, !.rowOffset = 0]
                  [] key = END_KEY ->
                       IF n <= e.screenRows
                       THEN [e EXCEPT !.cy = n - 1, !.rowOffset = 0]
                       ELSE [e EXCEPT !.cy = e.screenRows - 1, !.rowOffset = n - e.screenRows]
                  [] OTHER -> e]

\* the texts of createExplorerRows with the idx their rows get: the header,
\* the parent directory option, and one line for each directory entry
\* (a folder sign and name/ for a directory, a page sign, the name and the
\* size for a file; size -1 stands for an entry whose Info is not available)
explorerLines(files, currentDir, hasParentDir) ==
    LET \* fmt's %d of n >= 0
        RECURSIVE Digits(_)
        Digits(n) == IF n < 10 THEN <<48 + n>> ELSE Append(Digits(n \div 10), 48 + (n % 10))
    IN
    << [idx |-> 0,
        chars |-> <<61, 61, 61, 32, 70, 105, 108, 101, 32, 69, 120, 112, 108, 111, 114, 101, 114, 58, 32>>
                  \o currentDir \o <<32, 61, 61, 61>>] >>
    \o (IF hasParentDir
        THEN << [idx |-> 1,
                 chars |-> <<128194, 32, 46, 46, 32, 40, 112, 97, 114, 101, 110, 116,
                           32, 100, 105, 114, 101, 99, 116, 111, 114, 121, 41>>] >>
        ELSE <<>>)
    \o [i \in 1..Len(files) |->
          [idx |-> i + 1,
           chars |-> IF files[i].isDir
                     THEN <<128193, 32>> \o files[i].name \o <<47>>
                     ELSE <<128196, 32>> \o files[i].name
                          \o (IF files[i].size < 0 THEN <<>>
                              ELSE <<32, 40>> \o Digits(files[i].size)
                                   \o <<32, 98, 121, 116, 101, 115, 41>>)]]

\* ex.refreshContent() with ex.currentDir already set to dir; fs maps the
\* directories that can be read to their entries.  ok tells whether
\* os.ReadDir succeeded.
refreshContent(e, ex, dir, fs) ==
    LET hasParentDir == dir # <<46>> /\ dir # <<47>>
        end(files, u) ==
            [ok |-> TRUE, e |-> u.e,
             ex |-> [currentDir |-> dir, files |-> files, hasParentDir |-> hasParentDir,
                     content |-> u.content]]
        lines(files) == explorerLines(files, dir, hasParentDir)
    IN IF dir \notin DOMAIN fs
       THEN [ok |-> FALSE, e |-> e, ex |-> [ex EXCEPT !.currentDir = dir]]
       ELSE end(fs[dir], updateRows(e, lines(fs[dir]), 1, Len(lines(fs[dir]))))

\* ex.GetStatusMessage()
ExplorerStatusMessage(ex) ==
    <<"File Explorer: %s - %d items (Enter=open/navigate, ESC/q=quit)",
      ex.currentDir, Len(ex.files)>>

\* ex.highlightSelectedFile(e); e.row is the same slice as ex.content
\* unless a failed Open replaced it
highlightSelectedFile(e, ex) ==
    IF e.cy <= 0 \/ e.cy >= Len(ex.content) THEN [e |-> e, ex |-> ex]
    ELSE LET content == [i \in 1..Len(ex.content) |->
                            IF i = 1 THEN ex.content[i]
                            ELSE [ex.content[i] EXCEPT
                                     !.hl = [j \in 1..Len(@) |->
                                                IF i = e.cy + 1 THEN HL_MATCH ELSE HL_NORMAL]]]
         IN [e |-> [e EXCEPT !.row = content], ex |-> [ex EXCEPT !.content = content]]

\* openSelectedFile without the test for unsaved changes
openSelectedFile_dirty(e, ex, fs) ==
    LET selectedIndex == (e.cy - 1) - (IF ex.hasParentDir THEN 1 ELSE 0)
        path(name) == IF ex.currentDir # <<46>> THEN ex.currentDir \o <<47>> \o name
                      ELSE name
        \* strings.LastIndex(ex.currentDir, "/"), 0-based, -1 when absent
        lastSlash ==
            LET at == {k \in 1..Len(ex.currentDir) : ex.currentDir[k] = 47}
            IN IF at = {} THEN -1 ELSE (CHOOSE k \in at : \A j \in at : j <= k) - 1
        \* the end of a directory change, r what refreshContent returned
        changed(r) ==
            [opened |-> FALSE, ex |-> r.ex,
             e |-> IF r.ok THEN r.e ELSE ShowError(r.e, <<"Failed to read directory: %v">>)]
    IN
    IF ex.hasParentDir /\ e.cy - 1 = 0
    THEN changed(refreshContent(e, ex,
             IF lastSlash # -1
             THEN IF lastSlash = 0 THEN <<46>> ELSE SubSeq(ex.currentDir, 1, lastSlash)
             ELSE <<46>>,
             fs))
    ELSE IF selectedIndex < 0 \/ selectedIndex >= Len(ex.files)
    THEN [opened |-> FALSE, e |-> e, ex |-> ex]
    ELSE IF ex.files[selectedIndex + 1].isDir
    THEN changed(refreshContent(e, ex, path(ex.files[selectedIndex + 1].name), fs))
    ELSE IF OpenFails(ex.files[selectedIndex + 1].file)
    THEN [opened |-> FALSE, ex |-> ex,
          e |-> ShowError(Open(e, path(ex.files[selectedIndex + 1].name), NoFile),
                          <<"Failed to open file: %v">>)]
    ELSE [opened |-> TRUE, ex |-> ex,
          e |-> Open(e, path(ex.files[selectedIndex + 1].name),
                     ex.files[selectedIndex + 1].file)]

\* ex.openSelectedFile(e): the editor, the screen and whether a file was
\* opened.  An entry of a regular file carries the file Open would read.
openSelectedFile(e, ex, fs) ==
    LET selectedIndex == (e.cy - 1) - (IF ex.hasParentDir THEN 1 ELSE 0)
        path(name) == IF ex.currentDir # <<46>> THEN ex.currentDir \o <<47>> \o name
                      ELSE name
        \* strings.LastIndex(ex.currentDir, "/"), 0-based, -1 when absent
        lastSlash ==
            LET at == {k \in 1..Len(ex.currentDir) : ex.currentDir[k] = 47}
            IN IF at = {} THEN -1 ELSE (CHOOSE k \in at : \A j \in at : j <= k) - 1
        \* the end of a directory change, r what refreshContent returned
        changed(r) ==
            [opened |-> FALSE, ex |-> r.ex,
             e |-> IF r.ok THEN r.e ELSE ShowError(r.e, <<"Failed to read directory: %v">>)]
    IN
    IF ex.hasParentDir /\ e.cy - 1 = 0
    THEN changed(refreshContent(e, ex,
             IF lastSlash # -1
             THEN IF lastSlash = 0 THEN <<46>> ELSE SubSeq(ex.currentDir, 1, lastSlash)
             ELSE <<46>>,
             fs))
    ELSE IF selectedIndex < 0 \/ selectedIndex >= Len(ex.files)
    THEN [opened |-> FALSE, e |-> e, ex |-> ex]
    ELSE IF ex.files[selectedIndex + 1].isDir
    THEN changed(refreshContent(e, ex, path(ex.files[selectedIndex + 1].name), fs))
    ELSE IF e.dirty > 0
    THEN [opened |-> FALSE, e |-> SetStatusMessage(e, <<"File has unsaved changes">>), ex |-> ex]
    ELSE IF OpenFails(ex.files[selectedIndex + 1].file)
    THEN [opened |-> FALSE, ex |-> ex,
          e |-> ShowError(Open(e, path(ex.files[selectedIndex + 1].name), NoFile),
                          <<"Failed to open file: %v">>)]
    ELSE [opened |-> TRUE, ex |-> ex,
          e |-> Open(e, path(ex.files[selectedIndex + 1].name),
                     ex.files[selectedIndex + 1].file)]

\* ex.HandleKey(key, e)
ExplorerHandleKey(e, ex, key, fs) ==
    LET maxItems == Len(ex.files) + (IF ex.hasParentDir THEN 1 ELSE 0)
        \* the arrow case after handleExplorerNavigation
        arrow(h) == [e |-> h.e, ex |-> h.ex, close |-> FALSE, restore |-> FALSE]
        \* the Enter case after openSelectedFile
        enter(o) ==
            IF o.opened THEN [e |-> o.e, ex |-> o.ex, close |-> TRUE, restore |-> FALSE]
            ELSE [close |-> FALSE, restore |-> FALSE, ex |-> o.ex,
                  e |-> SetStatusMessage(
                            [o.e EXCEPT !.cy = IF o.ex.hasParentDir THEN 2 ELSE 1,
                                        !.rowOffset = 0,
                                        !.row = o.ex.content,
                                        !.totalRows = Len(o.ex.content)],
                            <<"%s", ExplorerStatusMessage(o.ex)>>)]
    IN
    CASE key \in {113, 81, 27} -> [e |-> e, ex |-> ex, close |-> TRUE, restore |-> TRUE]
      [] key = ARROW_UP ->
           arrow(highlightSelectedFile(IF e.cy > 1 THEN [e EXCEPT !.cy = @ - 1] ELSE e, ex))
      [] key = ARROW_DOWN ->
           arrow(highlightSelectedFile(
                     IF e.cy < maxItems THEN [e EXCEPT !.cy = @ + 1] ELSE e, ex))
      [] key = 13 -> enter(openSelectedFile(e, ex, fs))
      [] OTHER -> [e |-> e, ex |-> ex, close |-> FALSE, restore |-> FALSE]

\* ex.Initialize(e)
explorerInitialize(e, ex) ==
    highlightSelectedFile([e EXCEPT !.cy = IF ex.hasParentDir THEN 2 ELSE 1], ex)

(***************************************************************************)
(* Key handling.                                                           *)
(***************************************************************************)
CTRL_Q == withControlKey(113)
CTRL_S == withControlKey(115)
CTRL_E == withControlKey(101)
CTRL_F == withControlKey(102)
CTRL_R == withControlKey(114)
ENTER == 13
ESCAPE == 27

\* What the user and the file system contribute to one ProcessKeypress call
\* beyond the key itself: the name typed into the "Save as" prompt, the
\* outcome of the write, the file picked in the explorer, the keys pressed
\* in the search prompt, and the answer to the window size query.
NoEnv == [promptName |-> <<>>, io |-> "ok", pickName |-> <<>>, pickFile |-> NoFile,
          findKeys |-> <<27>>, size |-> [ok |-> TRUE, rows |-> 24, cols |-> 80]]

\* e.Explorer() for a visit in which the user presses Enter on a regular
\* file and, when that does not open it, leaves with ESC.  The names listed
\* by the explorer contain no comment markers, so building its display rows
\* touches no buffer row.
Explorer(e, env) ==
    LET saved == e
        restored(e1) ==
            SetStatusMessage([e1 EXCEPT !.row = saved.row, !.totalRows = saved.totalRows,
                                        !.cx = saved.cx, !.cy = saved.cy,
                                        !.colOffset = saved.colOffset,
                                        !.rowOffset = saved.rowOffset,
                                        !.rx = 0, !.mode = EDIT_MODE],
                             <<"Returned to editor">>)
    IN IF e.dirty > 0 THEN restored(e)
       ELSE IF OpenFails(env.pickFile) THEN restored(Open(e, env.pickName, env.pickFile))
       ELSE Open(e, env.pickName, env.pickFile)

\* the Ctrl-Q case refusing one request fewer
QuitRequest_short(e, qt) ==
    IF e.dirty > 0 /\ qt > 1
    THEN [e |-> SetStatusMessage(e,
                  <<"WARNING: File has unsaved changes. Press Ctrl-Q %d more times to quit.", qt>>),
          quitTimes |-> qt - 1, exit |-> FALSE]
    ELSE [e |-> e, quitTimes |-> qt, exit |-> TRUE]

\* the Ctrl-Q case of ProcessKeypress: with unsaved changes and a countdown
\* above 0 the quit is refused and the countdown decremented (the handler
\* returns before the countdown is reset), otherwise the process exits
QuitRequest(e, qt) ==
    IF e.dirty > 0 /\ qt > 0
    THEN [e |-> SetStatusMessage(e,
                  <<"WARNING: File has unsaved changes. Press Ctrl-Q %d more times to quit.", qt>>),
          quitTimes |-> qt - 1, exit |-> FALSE]
    ELSE [e |-> e, quitTimes |-> qt, exit |-> TRUE]

\* e.ProcessKeypress() once readKey has returned key: the editor it leaves
\* behind, the quit countdown, and whether the process exited
ProcessKeypress(e, qt, key, env) ==
    LET done(e1) == [e |-> e1, quitTimes |-> QUIT_TIMES, exit |-> FALSE]
    IN CASE key = HOME_KEY -> done([e EXCEPT !.cx = 0])
         [] key = END_KEY ->
                done(IF e.cy < e.totalRows
                     THEN [e EXCEPT !.cx = Len(e.row[e.cy + 1].chars)] ELSE e)
         [] key = DELETE_KEY -> done(DeleteChar(MoveCursor(e, ARROW_RIGHT)))
         [] key = BACKSPACE -> done(DeleteChar(e))
         [] key = PAGE_UP ->
                done(MoveCursorTimes([e EXCEPT !.cy = e.rowOffset], ARROW_UP, e.screenRows))
         [] key = PAGE_DOWN ->
                done(MoveCursorTimes(
                        [e EXCEPT !.cy = IF e.rowOffset + e.screenRows - 1 < e.totalRows
                                         THEN e.rowOffset + e.screenRows - 1
                                         ELSE e.totalRows],
                        ARROW_DOWN, e.screenRows))
         [] key \in {ARROW_LEFT, ARROW_RIGHT, ARROW_UP, ARROW_DOWN} -> done(MoveCursor(e, key))
         [] key = ENTER -> done(InsertNewline(e))
         [] key = ESCAPE -> done(e)
         [] key = CTRL_Q -> QuitRequest(e, qt)
         [] key = CTRL_S -> done(Save(e, env.promptName, env.io))
         [] key = CTRL_E -> done([Explorer(e, env) EXCEPT !.mode = EDIT_MODE])
         [] key = CTRL_F -> done(Find(e, env.findKeys))
         [] key = CTRL_R -> done(Redraw(e, env.size))
         [] OTHER ->
                done(IF ~isControl(key) \/ key >= 128 THEN InsertRune(e, key) ELSE e)

(***************************************************************************)
(* The state machine.                                                      *)
(*   E          the Editor struct                                          *)
(*   quitTimes  the package variable quitTimes                             *)
(*   exited     os.Exit has been called                                    *)
(*   quitRun    history: the number of Ctrl-Q keys read since the last     *)
(*              other key                                                  *)
(*   pc, inp, out  used by the specifications that apply one operation to  *)
(*              an input drawn at Init: the phase, the input, the result   *)
(***************************************************************************)
VARIABLES E, quitTimes, exited, quitRun, pc, inp, out

vars == <<E, quitTimes, exited, quitRun, pc, inp, out>>

\* Bounds of the session specification
TermRows == 4
TermCols == 3
MaxRows == 2
MaxLen == 2
MaxDirty == 3

SessionAlphabet == {97}

\* a.c and n (no extension)
SessionNames == { <<97, 46, 99>>, <<110>> }

\* a missing file and a file with the one line "a"
SessionFiles == { NoFile, << <<97>> >> }

IOResults == {"ok", "open error", "truncate error", "write error", "short write"}

\* Press with an Escape key that leaves the countdown as it is
Press_stale(key, env) ==
    /\ ~exited
    /\ \E r \in {ProcessKeypress(E, quitTimes, key, env)} :
          /\ E' = IF r.exit THEN r.e ELSE RefreshScreen(r.e)
          /\ quitTimes' = IF key = ESCAPE THEN quitTimes ELSE r.quitTimes
          /\ exited' = r.exit
    /\ quitRun' = IF key = CTRL_Q THEN quitRun + 1 ELSE 0

\* one iteration of the main loop, taken from one readKey to the next:
\* ProcessKeypress handles key, then RefreshScreen draws the frame.  The
\* states of the model are the states in which the editor waits for a key.
Press(key, env) ==
    /\ ~exited
    /\ \E r \in {ProcessKeypress(E, quitTimes, key, env)} :
          /\ E' = IF r.exit THEN r.e ELSE RefreshScreen(r.e)
          /\ quitTimes' = r.quitTimes
          /\ exited' = r.exit
    /\ quitRun' = IF key = CTRL_Q THEN quitRun + 1 ELSE 0

KeyStep(key, env) ==
    /\ pc = "session"
    /\ Press(key, env)
    /\ UNCHANGED <<pc, inp, out>>

\* the guards that keep the buffer within maxRows rows of maxLen characters
\* and the dirty counter within maxDirty
RoomForChar(maxRows, maxLen, maxDirty) ==
    /\ E.dirty < maxDirty
    /\ IF E.cy < E.totalRows THEN Len(E.row[E.cy + 1].chars) < maxLen
       ELSE E.totalRows < maxRows

RoomForRow(maxRows, maxDirty) ==
    /\ E.dirty < maxDirty
    /\ E.totalRows < maxRows

\* joining rows a and a+1 (0-based) keeps the joined row within maxLen
RoomForJoin(a, maxLen, maxDirty) ==
    /\ E.dirty < maxDirty
    /\ (a >= 0 /\ a + 1 < E.totalRows) =>
          Len(E.row[a + 1].chars) + Len(E.row[a + 2].chars) <= maxLen

InsertKey(alphabet, maxRows, maxLen, maxDirty) ==
    /\ RoomForChar(maxRows, maxLen, maxDirty)
    /\ \E c \in alphabet : KeyStep(c, NoEnv)

EnterKey(maxRows, maxDirty) == RoomForRow(maxRows, maxDirty) /\ KeyStep(ENTER, NoEnv)

BackspaceKey(maxLen, maxDirty) ==
    /\ RoomForJoin(IF E.cx = 0 THEN E.cy - 1 ELSE E.totalRows, maxLen, maxDirty)
    /\ KeyStep(BACKSPACE, NoEnv)

DeleteKey(maxLen, maxDirty) ==
    /\ RoomForJoin(IF E.cy < E.totalRows /\ E.cx = Len(E.row[E.cy + 1].chars)
                   THEN E.cy ELSE E.totalRows, maxLen, maxDirty)
    /\ KeyStep(DELETE_KEY, NoEnv)

ArrowKey ==
    /\ pc = "session"
    /\ \E k \in {ARROW_LEFT, ARROW_RIGHT, ARROW_UP, ARROW_DOWN} : KeyStep(k, NoEnv)

HomeEndKey ==
    /\ pc = "session"
    /\ \E k \in {HOME_KEY, END_KEY} : KeyStep(k, NoEnv)

PageKey ==
    /\ pc = "session"
    /\ \E k \in {PAGE_UP, PAGE_DOWN} : KeyStep(k, NoEnv)

EscapeKey ==
    /\ pc = "session"
    /\ KeyStep(ESCAPE, NoEnv)

QuitKey ==
    /\ pc = "session"
    /\ KeyStep(CTRL_Q, NoEnv)

SaveKey ==
    /\ pc = "session"
    /\ \E name \in SessionNames \cup {<<>>}, io \in IOResults :
          KeyStep(CTRL_S, [NoEnv EXCEPT !.promptName = name, !.io = io])

ExplorerKey ==
    /\ pc = "session"
    /\ \E name \in SessionNames, file \in SessionFiles :
          KeyStep(CTRL_E, [NoEnv EXCEPT !.pickName = name, !.pickFile = file])

\* the searches of the session: a typed, then the search abandoned with
\* Escape or confirmed with Enter
FindVisits == { <<97, 27>>, <<97, 13>> }

SearchKey ==
    /\ pc = "session"
    /\ \E keys \in FindVisits : KeyStep(CTRL_F, [NoEnv EXCEPT !.findKeys = keys])

\* readKey returns an error: the key is skipped, the countdown is not reset
ReadKeyError ==
    /\ pc = "session"
    /\ ~exited
    /\ E' = RefreshScreen(ShowError(E, <<"reading keyboard input">>))
    /\ UNCHANGED <<quitTimes, exited, quitRun, pc, inp, out>>

Init ==
    /\ E = RefreshScreen(EditorInit(TermRows, TermCols))
    /\ quitTimes = QUIT_TIMES
    /\ exited = FALSE
    /\ quitRun = 0
    /\ pc = "session"
    /\ inp = <<>>
    /\ out = <<>>

Next ==
    \/ InsertKey(SessionAlphabet, MaxRows, MaxLen, MaxDirty)
    \/ EnterKey(MaxRows, MaxDirty)
    \/ BackspaceKey(MaxLen, MaxDirty)
    \/ DeleteKey(MaxLen, MaxDirty)
    \/ ArrowKey
    \/ HomeEndKey
    \/ PageKey
    \/ EscapeKey
    \/ QuitKey
    \/ SaveKey
    \/ ExplorerKey
    \/ SearchKey
    \/ ReadKeyError

Spec == Init /\ [][Next]_vars

(***************************************************************************)
(* Properties of the session.                                              *)
(***************************************************************************)
\* C1 (as stated): with unsaved changes, the third consecutive quit request
\* terminates the session.
C1_ThirdQuitExits == (E.dirty > 0 /\ quitRun = 3) => exited

\* C1 (amended): with unsaved changes and the countdown at 3, the first three
\* consecutive quit requests are refused, each decrementing the countdown
\* (3 -> 2 -> 1 -> 0) and leaving the session open; the fourth exits.
C1_FourthQuitExits ==
    E.dirty > 0 =>
        /\ quitRun <= QUIT_TIMES + 1
        /\ quitRun \in 1..QUIT_TIMES => (~exited /\ quitTimes = QUIT_TIMES - quitRun)
        /\ quitRun = QUIT_TIMES + 1 => exited
        /\ quitRun = 0 => (~exited /\ quitTimes = QUIT_TIMES)

C1_Witness == E.dirty > 0 /\ quitRun = QUIT_TIMES + 1 /\ exited

\* what C6 says a failed Open leaves alone
SameSession(e, e1) ==
    /\ e1.row = e.row
    /\ e1.totalRows = e.totalRows
    /\ e1.cx = e.cx /\ e1.cy = e.cy
    /\ e1.rowOffset = e.rowOffset /\ e1.colOffset = e.colOffset
    /\ e1.dirty = e.dirty
    /\ e1.syntax = e.syntax
    /\ e1.filename = e.filename

\* C6: when Open fails because the file cannot be opened (here from the
\* explorer, which is then left with ESC), rows, row count, cursor, scroll
\* offsets, dirty, syntax and filename keep their values.
C6_FailedOpenKeepsSession ==
    [][(\E name \in SessionNames :
            /\ E.dirty = 0
            /\ KeyStep(CTRL_E, [NoEnv EXCEPT !.pickName = name, !.pickFile = NoFile]))
       => SameSession(E, E')]_vars

\* the raw content of the buffer
Content(e) == [k \in 1..Len(e.row) |-> e.row[k].chars]

\* a Ctrl-S that writes the whole buffer
SuccessfulSave ==
    \E name \in SessionNames \cup {<<>>} :
        /\ E.filename # <<>> \/ name # <<>>
        /\ KeyStep(CTRL_S, [NoEnv EXCEPT !.promptName = name, !.io = "ok"])

\* a Ctrl-E in which a file is opened
SuccessfulOpen ==
    \E name \in SessionNames, file \in SessionFiles :
        /\ E.dirty = 0
        /\ ~OpenFails(file)
        /\ KeyStep(CTRL_E, [NoEnv EXCEPT !.pickName = name, !.pickFile = file])

C18_QuitAfterSaveExits ==
    [][/\ SuccessfulSave => (E'.dirty = 0 /\ quitTimes' = QUIT_TIMES /\ ~exited')
       /\ (E.dirty = 0 /\ KeyStep(CTRL_Q, NoEnv)) => (exited' /\ quitTimes' = quitTimes)]_vars

\* the session ended by the first quit request after an edited buffer of two
\* rows was saved
C18_Witness ==
    /\ exited
    /\ quitRun = 1
    /\ quitTimes = QUIT_TIMES
    /\ E.dirty = 0
    /\ E.totalRows = 2
    /\ E.statusMessage[1] = "%d bytes written to disk"

\* a Ctrl-S that reaches the file and fails there
FailedSave ==
    \E name \in SessionNames \cup {<<>>}, io \in IOResults \ {"ok"} :
        /\ E.filename # <<>> \/ name # <<>>
        /\ KeyStep(CTRL_S, [NoEnv EXCEPT !.promptName = name, !.io = io])

C19_OtherKeyResetsCountdown ==
    /\ quitRun = 0 => quitTimes = QUIT_TIMES
    /\ (exited /\ E.dirty > 0) => quitRun = QUIT_TIMES + 1

\* the countdown back at 3 after three refused quit requests and another key
C19_Witness ==
    /\ ~exited
    /\ quitRun = 0
    /\ quitTimes = QUIT_TIMES
    /\ E.dirty > 0
    /\ Len(E.statusMessage) = 2
    /\ E.statusMessage[1] =
           "WARNING: File has unsaved changes. Press Ctrl-Q %d more times to quit."
    /\ E.statusMessage[2] = 1

(***************************************************************************)
(* Editing a C file: the session started on a file given on the command    *)
(* line (main calls Open before the key loop), driven by the editing keys. *)
(***************************************************************************)
EditMaxRows == 3
EditMaxLen == 3
EditMaxDirty == 3

\* / * "
EditAlphabet == {47, 42, 34}

EditName == <<97, 46, 99>>

\* the files the session starts on, as their lines
EditFiles == { <<>>, << <<47, 42>> >>, << <<47, 42>>, <<42, 47>> >> }

InitEdit ==
    /\ \E file \in EditFiles :
          E = RefreshScreen(Open(EditorInit(TermRows, TermCols), EditName, file))
    /\ quitTimes = QUIT_TIMES
    /\ exited = FALSE
    /\ quitRun = 0
    /\ pc = "session"
    /\ inp = <<>>
    /\ out = <<>>

NextEdit ==
    \/ InsertKey(EditAlphabet, EditMaxRows, EditMaxLen, EditMaxDirty)
    \/ EnterKey(EditMaxRows, EditMaxDirty)
    \/ BackspaceKey(EditMaxLen, EditMaxDirty)
    \/ DeleteKey(EditMaxLen, EditMaxDirty)
    \/ ArrowKey

SpecEdit == InitEdit /\ [][NextEdit]_vars

\* highlighting the whole buffer from row 0: row k scanned with the open
\* comment state its predecessor leaves
RECURSIVE FullHighlight(_, _, _, _)
FullHighlight(rows, syn, k, acc) ==
    IF k > Len(rows) THEN acc
    ELSE LET inComment0 == k > 1 /\ acc[k - 1].inComment
             r == ScanRow(rows[k].render, syn, 0, Zeros(Len(rows[k].render)),
                          TRUE, 0, inComment0)
         IN FullHighlight(rows, syn, k + 1, Append(acc, r))

\* C2: after any sequence of edits every row's highlight tags and open
\* comment flag equal those of highlighting the whole buffer from row 0.
C2_HighlightIsFullBuffer ==
    E.syntax # NoSyntax =>
        \E ref \in {FullHighlight(E.row, HLDB_ENTRIES[E.syntax], 1, <<>>)} :
            \A k \in 1..Len(E.row) :
                /\ E.row[k].hl = ref[k].hl
                /\ E.row[k].hlOpenComment = ref[k].inComment

\* the 0-based offset of the first occurrence of p in s, -1 when there is none
FirstIndex(s, p) ==
    LET at == {i \in 0..Len(s) : HasPrefix(s, i, p)}
    IN IF at = {} THEN -1 ELSE CHOOSE i \in at : \A j \in at : i <= j

\* C12: block comment state carries from each row to the next.  A row that
\* starts a block comment and never ends it has openComment true; a row
\* whose predecessor has openComment true is tagged as scanned from inside
\* the comment: without an end marker every character is BlockComment and
\* openComment stays true, with an end marker everything up to and including
\* the marker is BlockComment, and when no comment starts after the marker
\* nothing after it is BlockComment and openComment is false.
C12_CommentCarries ==
    E.syntax # NoSyntax =>
        \E mcs \in {HLDB_ENTRIES[E.syntax].multilineCommentStart},
           mce \in {HLDB_ENTRIES[E.syntax].multilineCommentEnd} :
            \A k \in 1..Len(E.row) :
                \E row \in {E.row[k]}, m \in {FirstIndex(E.row[k].render, mce)} :
                    IF k > 1 /\ E.row[k - 1].hlOpenComment
                    THEN IF m = -1
                         THEN /\ \A j \in 1..Len(row.hl) : row.hl[j] = HL_MLCOMMENT
                              /\ row.hlOpenComment
                         ELSE /\ \A j \in 1..(m + Len(mce)) : row.hl[j] = HL_MLCOMMENT
                              /\ (\A i \in (m + Len(mce))..Len(row.render) :
                                      ~HasPrefix(row.render, i, mcs))
                                  => /\ \A j \in (m + Len(mce) + 1)..Len(row.hl) :
                                           row.hl[j] # HL_MLCOMMENT
                                     /\ ~row.hlOpenComment
                    ELSE (/\ HasPrefix(row.render, 0, mcs)
                          /\ \A i \in Len(mcs)..Len(row.render) : ~HasPrefix(row.render, i, mce))
                         => row.hlOpenComment

\* C21: with at least one screen row and one screen column, after Scroll
\* the cursor row is inside the window of rows (rowOffset <= cy <
\* rowOffset + screenRows) and the render column inside the window of
\* columns (colOffset <= rx < colOffset + screenCols), so that the cursor
\* position RefreshScreen writes, (cy - rowOffset + 1, rx - colOffset + 1),
\* lies in 1..screenRows by 1..screenCols.
C21_CursorInViewport ==
    (E.screenRows >= 1 /\ E.screenCols >= 1) =>
        /\ E.rowOffset <= E.cy /\ E.cy < E.rowOffset + E.screenRows
        /\ E.colOffset <= E.rx /\ E.rx < E.colOffset + E.screenCols
        /\ E.cy - E.rowOffset + 1 \in 1..E.screenRows
        /\ E.rx - E.colOffset + 1 \in 1..E.screenCols

\* the window has been moved down and to the right to follow the cursor
C21_Witness ==
    /\ E.screenRows >= 1 /\ E.screenCols >= 1
    /\ E.rowOffset > 0 /\ E.colOffset > 0
    /\ E.cy = E.rowOffset + E.screenRows - 1
    /\ E.rx = E.colOffset + E.screenCols - 1

\* C22: Scroll makes the smallest adjustment.  A key of the editing session
\* leaves the offsets to Scroll; when the cursor it leaves is inside the
\* window the offsets stay as they were, when it is above (left of) the
\* window the offset becomes the cursor row (render column), when it is
\* below (right of) the window the offset becomes the one that puts the
\* cursor on the last line (column) of the window.  The window is never
\* re-centred.
C22_ScrollIsMinimal ==
    [][ /\ E'.rowOffset =
              IF E'.cy < E.rowOffset THEN E'.cy
              ELSE IF E'.cy >= E.rowOffset + E.screenRows
                   THEN E'.cy - E.screenRows + 1
                   ELSE E.rowOffset
        /\ E'.colOffset =
              IF E'.rx < E.colOffset THEN E'.rx
              ELSE IF E'.rx >= E.colOffset + E.screenCols
                   THEN E'.rx - E.screenCols + 1
                   ELSE E.colOffset ]_vars

\* the window of rows moved back up to a cursor that had left it after it
\* had been moved down, and the window of columns moved right
C22_Witness ==
    /\ E.rowOffset = E.cy /\ E.cy > 0 /\ E.screenRows > 1
    /\ E.colOffset > 0 /\ E.rx = E.colOffset + E.screenCols - 1

\* C28: ARROW_LEFT at column 0 of a row r > 0 moves the cursor to the end
\* of row r-1, ARROW_RIGHT at the end of row r moves it to column 0 of row
\* r+1, and ARROW_LEFT followed by ARROW_RIGHT brings the cursor back to
\* where it was from every position except (0, 0), where ARROW_LEFT does
\* nothing.
C28_LeftRightWrap ==
    [][/\ (KeyStep(ARROW_LEFT, NoEnv) /\ E.cx = 0 /\ E.cy > 0) =>
              (E'.cy = E.cy - 1 /\ E'.cx = Len(E.row[E.cy].chars))
       /\ (KeyStep(ARROW_RIGHT, NoEnv) /\ E.cy < E.totalRows
              /\ E.cx = Len(E.row[E.cy + 1].chars)) =>
              (E'.cy = E.cy + 1 /\ E'.cx = 0)
       /\ KeyStep(ARROW_LEFT, NoEnv) =>
              IF E.cy = 0 /\ E.cx = 0
              THEN E'.cy = 0 /\ E'.cx = 0
              ELSE \E r \in {ProcessKeypress(E', quitTimes', ARROW_RIGHT, NoEnv)} :
                       r.e.cy = E.cy /\ r.e.cx = E.cx]_vars

\* the cursor at the end of the second of three rows, which is not empty:
\* where ARROW_LEFT puts it from column 0 of the third
C28_Witness ==
    /\ E.totalRows = 3
    /\ E.cy = 1
    /\ E.cx = Len(E.row[2].chars)
    /\ E.cx > 0
    /\ E.dirty > 0

\* a vertical arrow key
VerticalKey == KeyStep(ARROW_UP, NoEnv) \/ KeyStep(ARROW_DOWN, NoEnv)

\* the length of row cy of e, 0 for the line after the last row
RowLen(e, cy) == IF cy < e.totalRows THEN Len(e.row[cy + 1].chars) ELSE 0

\* C29 as stated: ARROW_UP and ARROW_DOWN change only the cursor row, the
\* column stays as it was even when the target row is shorter.
C29_VerticalKeepsColumn ==
    [][VerticalKey => E'.cx = E.cx]_vars

\* C29: ARROW_UP and ARROW_DOWN move the cursor by one row where there is
\* one, leave the buffer as it is, and in the same key clamp the column to
\* the length of the target row.
C29_VerticalClampsColumn ==
    [][VerticalKey =>
          /\ E'.row = E.row /\ E'.dirty = E.dirty
          /\ E'.cy \in {E.cy - 1, E.cy, E.cy + 1}
          /\ E'.cx = (IF E.cx > RowLen(E, E'.cy) THEN RowLen(E, E'.cy) ELSE E.cx)]_vars

\* the cursor at the end of a row, below a longer row and at a column where
\* the third row has a character too: where ARROW_DOWN or ARROW_UP clamps
C29_Witness ==
    /\ E.totalRows = 3
    /\ E.cy = 1
    /\ E.cx = Len(E.row[2].chars)
    /\ Len(E.row[1].chars) > E.cx
    /\ Len(E.row[3].chars) > E.cx

\* C35: the Delete key leaves the cursor position (cx, cy) unchanged in
\* every case: with a character under the cursor, at the end of a row that
\* has a next row, at the end of the last row and on the line past the
\* last row.
C35_DeleteKeepsCursor ==
    [][KeyStep(DELETE_KEY, NoEnv) => E'.cx = E.cx /\ E'.cy = E.cy]_vars

(***************************************************************************)
(* Splitting a row and joining it again: the cursor is placed with the     *)
(* arrow keys, ENTER splits the row under it, BACKSPACE at column 0 of the *)
(* new row joins the two.  inp keeps the editor as it was before the       *)
(* split.                                                                  *)
(***************************************************************************)
SplitMaxRows == 2
SplitMaxLen == 2

SplitAlphabet == {97, 47}

RECURSIVE SeqsUpTo(_, _)
SeqsUpTo(S, n) ==
    IF n = 0 THEN { <<>> }
    ELSE LET shorter == SeqsUpTo(S, n - 1)
         IN shorter \cup { Append(t, x) : t \in shorter, x \in S }

SplitFiles == SeqsUpTo(SeqsUpTo(SplitAlphabet, SplitMaxLen), SplitMaxRows) \ { <<>> }

InitSplitJoin ==
    /\ \E file \in SplitFiles :
          E = RefreshScreen(Open(EditorInit(TermRows, TermCols), EditName, file))
    /\ quitTimes = QUIT_TIMES
    /\ exited = FALSE
    /\ quitRun = 0
    /\ pc = "start"
    /\ inp = <<>>
    /\ out = <<>>

PlaceCursor ==
    /\ pc = "start"
    /\ \E k \in {ARROW_LEFT, ARROW_RIGHT, ARROW_UP, ARROW_DOWN} : Press(k, NoEnv)
    /\ UNCHANGED <<pc, inp, out>>

SplitRow ==
    /\ pc = "start"
    /\ E.cy < E.totalRows
    /\ Press(ENTER, NoEnv)
    /\ pc' = "split"
    /\ inp' = E
    /\ UNCHANGED out

JoinRows ==
    /\ pc = "split"
    /\ Press(BACKSPACE, NoEnv)
    /\ pc' = "joined"
    /\ UNCHANGED <<inp, out>>

NextSplitJoin == PlaceCursor \/ SplitRow \/ JoinRows

SpecSplitJoin == InitSplitJoin /\ [][NextSplitJoin]_vars

\* C10: InsertNewline with the cursor at (i, r) followed by DeleteChar at
\* column 0 of row r+1 restores the content of row r, the row count and the
\* content of every other row.
C10_SplitJoinRestores ==
    pc = "joined" =>
        /\ E.totalRows = inp.totalRows
        /\ Len(E.row) = Len(inp.row)
        /\ \A k \in 1..Len(inp.row) : E.row[k].chars = inp.row[k].chars

\* in between the row count is one larger and the cursor at column 0 of row r+1
C10_SplitAddsRow ==
    pc = "split" =>
        /\ E.totalRows = inp.totalRows + 1
        /\ E.cy = inp.cy + 1 /\ E.cx = 0

C10_Witness ==
    /\ pc = "joined"
    /\ inp.totalRows = 2 /\ inp.cy = 0
    /\ inp.cx = 1 /\ Len(inp.row[1].chars) = 2
    /\ inp.row[1].chars # inp.row[2].chars

(***************************************************************************)
(* One row under the row operations: the editor holds a single row (a file *)
(* of one line opened as a C file, so that the row is rendered and         *)
(* highlighted), characters are inserted into and deleted from it, and its *)
(* columns converted.  out records the last operation, its arguments and   *)
(* the editor it was applied to,                                           *)
(* inp the run of deletions made since the last other change of the row:   *)
(* the row the run started from and the indices deleted, and with them the *)
(* insertion that made that row: the row before it (orig) and the column   *)
(* inserted at (insAt, -1 when the row comes from the file).               *)
(***************************************************************************)
RowMaxLen == 3
RowMaxDirty == 3

\* tab, a control character, i, f, (, space
RowAlphabet == {9, 1, 105, 102, 40, 32}

\* hello, abc, ifconfig, if (x), x 1.5, (1, ^ ESC DEL
RowExamples == { <<104, 101, 108, 108, 111>>,
                 <<97, 98, 99>>,
                 <<105, 102, 99, 111, 110, 102, 105, 103>>,
                 <<105, 102, 32, 40, 120, 41>>,
                 <<120, 32, 49, 46, 53>>,
                 <<40, 49>>,
                 <<94, 27, 127>> }

InitRow ==
    /\ \E chars \in RowExamples \cup { <<>> } :
          E = Open(EditorInit(TermRows, TermCols), EditName, <<chars>>)
    /\ quitTimes = QUIT_TIMES
    /\ exited = FALSE
    /\ quitRun = 0
    /\ pc = "row"
    /\ inp = [from |-> E.row[1].chars, ats |-> <<>>, orig |-> E.row[1].chars, insAt |-> -1]
    /\ out = [op |-> "Open"]

RowInsertChar ==
    /\ pc = "row"
    /\ Len(E.row[1].chars) < RowMaxLen
    /\ E.dirty < RowMaxDirty
    /\ \E at \in 0..Len(E.row[1].chars), c \in RowAlphabet :
          /\ E' = InsertChar(E, 0, at, c)
          /\ out' = [op |-> "InsertChar", at |-> at, before |-> E]
          /\ inp' = [from |-> E'.row[1].chars, ats |-> <<>>,
                     orig |-> E.row[1].chars, insAt |-> at]
    /\ UNCHANGED <<quitTimes, exited, quitRun, pc>>

RowDeleteChar ==
    /\ pc = "row"
    /\ E.dirty < RowMaxDirty
    /\ \E at \in -1..Len(E.row[1].chars) :
          /\ E' = deleteChar(E, 0, at)
          /\ out' = [op |-> "deleteChar", at |-> at, before |-> E]
          /\ inp' = IF E'.row[1].chars # E.row[1].chars
                    THEN [inp EXCEPT !.ats = Append(@, at)]
                    ELSE inp
    /\ UNCHANGED <<quitTimes, exited, quitRun, pc>>

RowConvert ==
    /\ pc = "row"
    /\ \E cx \in 0..Len(E.row[1].chars) :
          \E rx \in {cxToRx(E.row[1], cx)} :
              out' = [op |-> "cxToRx", cx |-> cx, rx |-> rx, back |-> rxToCx(E.row[1], rx)]
    /\ UNCHANGED <<E, quitTimes, exited, quitRun, pc, inp>>

NextRow == RowInsertChar \/ RowDeleteChar \/ RowConvert

SpecRow == InitRow /\ [][NextRow]_vars

\* the expansion of one raw character at render column col: a tab fills up
\* to the next multiple of 4, a control character (below 32, or 127) is a
\* caret and a printable character, any other character is itself
Expansion(c, col) ==
    IF c = 9 THEN [i \in 1..(4 - (col % 4)) |-> 32]
    ELSE IF c < 32 \/ c = 127 THEN <<94, IF c = 127 THEN 63 ELSE c + 64>>
    ELSE <<c>>

\* the expansions of chars[k..] concatenated after the text acc
RECURSIVE Expanded(_, _, _)
Expanded(chars, k, acc) ==
    IF k > Len(chars) THEN acc
    ELSE Expanded(chars, k + 1, acc \o Expansion(chars[k], Len(acc)))

\* C25: the rendered text Update makes is the concatenation of the
\* expansions of the raw characters: 4 - (col mod 4) spaces for a tab at
\* render column col, ^ and ? for 127, ^ and c + 64 for another control
\* character c, the character itself otherwise; raw content without tabs
\* and control characters renders to itself.
C25_RenderIsExpansion ==
    \A k \in 1..Len(E.row) :
        /\ E.row[k].render = Expanded(E.row[k].chars, 1, <<>>)
        /\ (\A i \in 1..Len(E.row[k].chars) : ~isControl(E.row[k].chars[i]))
              => E.row[k].render = E.row[k].chars

\* a row just changed by an insertion that has a tab after two characters, a
\* control character among them
C25_Witness ==
    /\ out.op = "InsertChar"
    /\ Len(E.row[1].chars) = 3
    /\ E.row[1].chars[3] = 9
    /\ \E i \in 1..2 : E.row[1].chars[i] = 1
    /\ Len(E.row[1].render) = 4

\* C27: every raw control character (below 32, or 127; a tab is expanded
\* to spaces by its own rule and is not counted) of every row is shown as
\* the two characters ^X, and unless they lie inside a string or a comment
\* both are tagged ControlSequence.
C27_ControlShownAndTagged ==
    \A k \in 1..Len(E.row) :
        \E row \in {E.row[k]} :
            \A j \in 1..Len(row.chars) :
                (isControl(row.chars[j]) /\ row.chars[j] # 9) =>
                    \E rx \in {cxToRx(row, j - 1)} :
                        /\ rx + 2 <= Len(row.render)
                        /\ row.render[rx + 1] = 94
                        /\ row.render[rx + 2] = (IF row.chars[j] = 127 THEN 63
                                                 ELSE row.chars[j] + 64)
                        /\ \/ row.hl[rx + 1] = HL_CONTROL /\ row.hl[rx + 2] = HL_CONTROL
                           \/ {row.hl[rx + 1], row.hl[rx + 2]}
                                  \subseteq {HL_STRING, HL_COMMENT, HL_MLCOMMENT}

\* C3: for every raw column cx in [0, len] of every row, converting to the
\* render column and back gives cx again.
C3_RoundTrip == out.op = "cxToRx" => out.back = out.cx

\* the tags the scan gives keyword characters
KeywordTag == {HL_KEYWORD1, HL_KEYWORD2}

\* keyword n of class j occurs in render at 0-based offset s and is followed
\* by a separator or the end of the row
WholeWordAt(render, keywords, j, n, s) ==
    /\ HasPrefix(render, s, keywords[j][n])
    /\ \/ s + Len(keywords[j][n]) = Len(render)
       \/ isSeparator(render[s + Len(keywords[j][n]) + 1])

\* C4: a character carries a Keyword tag only as part of a keyword occurrence
\* that is followed by a separator or the end of the row, so a keyword that
\* is only a proper prefix of a longer identifier produces no Keyword tag.
C4_KeywordNeedsSeparatorAfter ==
    \E row \in {E.row[1]}, keywords \in {HLDB_ENTRIES[E.syntax].keywords} :
        \A k \in 1..Len(row.hl) :
            row.hl[k] \in KeywordTag =>
                \E j \in 1..Len(keywords) :
                    \E n \in 1..Len(keywords[j]), s \in 0..(k - 1) :
                        /\ k - 1 < s + Len(keywords[j][n])
                        /\ WholeWordAt(row.render, keywords, j, n, s)

\* C5: every keyword occurrence that starts at column 0 or right after a
\* separator tagged Normal, is followed by a separator or the end of the
\* row, and lies outside strings and comments, has exactly its own
\* characters tagged with its class's Keyword tag.
C5_KeywordAtWordStartTagged ==
    \E row \in {E.row[1]}, keywords \in {HLDB_ENTRIES[E.syntax].keywords} :
        \A j \in 1..Len(keywords) :
            \A n \in 1..Len(keywords[j]), s \in 0..Len(row.render) :
                ( /\ WholeWordAt(row.render, keywords, j, n, s)
                  /\ \/ s = 0
                     \/ isSeparator(row.render[s]) /\ row.hl[s] = HL_NORMAL
                  /\ \A k \in (s + 1)..(s + Len(keywords[j][n])) :
                        row.hl[k] \notin {HL_STRING, HL_COMMENT, HL_MLCOMMENT} )
                => /\ \A k \in (s + 1)..(s + Len(keywords[j][n])) :
                         row.hl[k] = HL_KEYWORD1 + (j - 1)
                   /\ s + Len(keywords[j][n]) < Len(row.render) =>
                         row.hl[s + Len(keywords[j][n]) + 1] \notin KeywordTag

\* C8: deleteChar(at) with 0 <= at < len(chars) removes exactly the character
\* at index at and keeps the others in order (index 1 of hello gives hllo);
\* a run of deletions shortens the row by one each (index 0 twice from abc
\* gives c); with at out of range nothing changes.
C8_DeleteCharRemovesOne ==
    /\ out.op = "deleteChar" =>
          \E before \in {out.before.row[1].chars}, after \in {E.row[1].chars} :
              IF 0 <= out.at /\ out.at < Len(before)
              THEN /\ Len(after) = Len(before) - 1
                   /\ \A k \in 1..Len(after) :
                         after[k] = IF k <= out.at THEN before[k] ELSE before[k + 1]
                   /\ (before = <<104, 101, 108, 108, 111>> /\ out.at = 1)
                         => after = <<104, 108, 108, 111>>
              ELSE E = out.before
    /\ Len(E.row[1].chars) = Len(inp.from) - Len(inp.ats)
    /\ (inp.from = <<97, 98, 99>> /\ inp.ats = <<0, 0>>) => E.row[1].chars = <<99>>

C8_Witness ==
    /\ out.op = "deleteChar"
    /\ inp.from = <<97, 98, 99>> /\ inp.ats = <<0, 0>>
    /\ Len(E.row[1].chars) = 1

\* C20: with numbers enabled, outside strings and comments, every digit at
\* column 0 or right after a separator tagged Normal is tagged Number, and
\* so is every digit or `.` right after a character tagged Number.
C20_DigitAfterSeparatorIsNumber ==
    HLDB_ENTRIES[E.syntax].flags.numbers =>
        \E row \in {E.row[1]} :
            \A k \in 1..Len(row.render) :
                row.hl[k] \notin {HL_STRING, HL_COMMENT, HL_MLCOMMENT} =>
                    /\ ( /\ isDigit(row.render[k])
                         /\ \/ k = 1
                            \/ isSeparator(row.render[k - 1]) /\ row.hl[k - 1] = HL_NORMAL )
                       => row.hl[k] = HL_NUMBER
                    /\ ( /\ isDigit(row.render[k]) \/ row.render[k] = 46
                         /\ k > 1
                         /\ row.hl[k - 1] = HL_NUMBER )
                       => row.hl[k] = HL_NUMBER

\* C11: inserting a character at column i of a row, i in [0, len], and then
\* deleting the character at column i leaves the row's raw content as it was
\* before the insertion.
C11_InsertThenDeleteRestores ==
    (out.op = "deleteChar" /\ inp.insAt >= 0 /\ inp.ats = <<inp.insAt>>)
        => E.row[1].chars = inp.orig

C11_Witness ==
    /\ out.op = "deleteChar"
    /\ inp.insAt = 1 /\ inp.ats = <<1>>
    /\ Len(inp.orig) = 2 /\ inp.orig[1] # inp.orig[2]
    /\ inp.from[2] # inp.orig[2]
    /\ E.row[1].chars = inp.orig

(***************************************************************************)
(* Searching: the session started on a C file, the cursor moved with the   *)
(* arrow keys, and Ctrl-F starting a search.  While Find runs, the keys    *)
(* are read by Prompt; a state of the model is a state in which the editor *)
(* waits for a key, in the main loop (pc = "session") or in the Prompt     *)
(* loop (pc = "search").                                                   *)
(*   inp  g: the package variables of the search; buf: the text typed into *)
(*        the prompt; saved: the cursor and offsets Find keeps in its      *)
(*        local variables                                                  *)
(*   out  history: the editor as it was when Ctrl-F was read (before), the *)
(*        last key read by Prompt (key), the editor and package variables  *)
(*        that key met (e0, g0), the query passed to the callback (query)  *)
(*        and the rows its loop inspected (examined), the position the     *)
(*        cursor was last put to by a match or, before any match, was at   *)
(*        when the search began (at)                                       *)
(***************************************************************************)
FindMaxQuery == 2

\* a, 1, and e with acute accent (two bytes in the prompt buffer)
FindAlphabet == {97, 49, 233}

\* the files searched, as their lines: 1a b b; a b a1; ^Aa tab-a; /*a a
FindFiles == { << <<49, 97>>, <<98>>, <<98>> >>,
               << <<97>>, <<98>>, <<97, 49>> >>,
               << <<1, 97>>, <<9, 97>> >>,
               << <<47, 42, 97>>, <<97>> >> }

\* the cursor and offsets kept by Find while no search is going on
NoSaved == [cx |-> 0, cy |-> 0, colOffset |-> 0, rowOffset |-> 0]

InitFind ==
    /\ \E file \in FindFiles :
          E = RefreshScreen(Open(EditorInit(TermRows, TermCols), EditName, file))
    /\ quitTimes = QUIT_TIMES
    /\ exited = FALSE
    /\ quitRun = 0
    /\ pc = "session"
    /\ inp = [g |-> FindVars, buf |-> <<>>,
              saved |-> NoSaved]
    /\ out = [key |-> 0]

\* Ctrl-F read in the main loop: Find keeps the cursor and the offsets and
\* calls Prompt, which shows the empty prompt and waits for a key
FindOpen ==
    /\ pc = "session"
    /\ ~exited
    /\ E' = PromptHead(E, SearchPrompt, <<>>)
    /\ pc' = "search"
    /\ inp' = [inp EXCEPT !.buf = <<>>,
                          !.saved = [cx |-> E.cx, cy |-> E.cy,
                                     colOffset |-> E.colOffset, rowOffset |-> E.rowOffset]]
    /\ quitRun' = 0
    /\ UNCHANGED <<quitTimes, exited>>

\* FindOpen with the editor the search starts from kept in out
FindKey ==
    /\ FindOpen
    /\ out' = [key |-> CTRL_F, before |-> E, at |-> <<E.cy, E.cx>>]

\* one key read by Prompt.  When Prompt goes round its loop the prompt is
\* shown again; when it returns, Find and then ProcessKeypress finish and
\* the main loop refreshes the screen.
PromptMove(key) ==
    /\ pc = "search"
    /\ \E r \in {PromptKey(E, inp.g, inp.buf, key)} :
          /\ E' = IF r.ret = "loop" THEN PromptHead(r.e, SearchPrompt, r.buf)
                  ELSE RefreshScreen(FindEnd(r.e, inp.saved, r.ret))
          /\ pc' = IF r.ret = "loop" THEN "search" ELSE "session"
          /\ quitTimes' = IF r.ret = "loop" THEN quitTimes ELSE QUIT_TIMES
          /\ inp' = [inp EXCEPT !.g = r.g,
                                !.buf = IF r.ret = "loop" THEN r.buf ELSE <<>>,
                                !.saved = IF r.ret = "loop" THEN @ ELSE NoSaved]
    /\ UNCHANGED <<exited, quitRun>>

\* PromptMove with the history of the step kept in out
PromptStep(key) ==
    /\ PromptMove(key)
    /\ \E r \in {PromptKey(E, inp.g, inp.buf, key)} :
          out' = [key |-> key, before |-> out.before, e0 |-> E, g0 |-> inp.g,
                  query |-> DecodeRunes(r.buf), examined |-> r.examined,
                  at |-> IF r.g.savedHl # NilHl THEN <<r.e.cy, r.e.cx>> ELSE out.at]

PromptType ==
    \E c \in FindAlphabet :
        /\ pc = "search"
        /\ Len(inp.buf) + Len(EncodeRune(c)) <= FindMaxQuery
        /\ PromptStep(c)

PromptErase == \E k \in {BACKSPACE, DELETE_KEY} : PromptStep(k)

PromptArrow == \E k \in {ARROW_LEFT, ARROW_RIGHT, ARROW_UP, ARROW_DOWN} : PromptStep(k)

\* Home, End, PageUp or PageDown read by Prompt
PromptNamed ==
    \E k \in {HOME_KEY, END_KEY, PAGE_UP, PAGE_DOWN} :
        /\ pc = "search"
        /\ Len(inp.buf) + Len(EncodeRune(k)) <= FindMaxQuery
        /\ PromptStep(k)

PromptEnter == PromptStep(13)

PromptEscape == PromptStep(27)

\* an arrow key read in the main loop
FindMoveKey ==
    /\ pc = "session"
    /\ \E k \in {ARROW_LEFT, ARROW_RIGHT, ARROW_UP, ARROW_DOWN} :
          /\ Press(k, NoEnv)
          /\ out' = [key |-> k]
    /\ UNCHANGED <<pc, inp>>

NextFind ==
    \/ FindMoveKey
    \/ FindKey
    \/ PromptType
    \/ PromptErase
    \/ PromptArrow
    \/ PromptNamed
    \/ PromptEnter
    \/ PromptEscape

SpecFind == InitFind /\ [][NextFind]_vars

\* the keys on which Prompt calls the callback and the callback searches
SearchStepKeys ==
    FindAlphabet \cup {BACKSPACE, DELETE_KEY, ARROW_LEFT, ARROW_RIGHT, ARROW_UP, ARROW_DOWN}

\* row r (0-based) of the buffer contains the query of the last search step
RowHasQuery(r) == Contains(E.row[r + 1].render, out.query)

\* C13: one search step, from the last match row and direction it starts
\* with, inspects the rows in cyclic order, at most rowCount of them, none
\* of the rows before the last inspected one contains the query, and when
\* some row contains the query the cursor is on the last row inspected,
\* which contains it; otherwise all rows were inspected and the cursor did
\* not move.  With three rows of which only row 0 contains the query, a
\* step forward from row 2 and a step backward from row 0 end on row 0.
C13_SearchStepCyclic ==
    (pc = "search" /\ out.key \in SearchStepKeys) =>
        \E g1 \in {FindDirection(out.g0, out.key)} :
            /\ Len(out.examined) <= E.totalRows
            /\ \A j \in 1..Len(out.examined) :
                  /\ out.examined[j] = (g1.lastMatch + j * g1.direction) % E.totalRows
                  /\ j < Len(out.examined) => ~RowHasQuery(out.examined[j])
            /\ IF \E r \in 0..(E.totalRows - 1) : RowHasQuery(r)
               THEN /\ out.examined # <<>>
                    /\ RowHasQuery(out.examined[Len(out.examined)])
                    /\ E.cy = out.examined[Len(out.examined)]
                    /\ inp.g.lastMatch = E.cy
               ELSE /\ Len(out.examined) = E.totalRows
                    /\ E.cy = out.e0.cy /\ E.cx = out.e0.cx
            /\ ( /\ E.totalRows = 3
                 /\ \A r \in 0..2 : RowHasQuery(r) <=> r = 0
                 /\ \/ g1.lastMatch = 2 /\ g1.direction = 1
                    \/ g1.lastMatch = 0 /\ g1.direction = -1 )
               => E.cy = 0

\* a step backward from row 0, the only row with the query, went through
\* rows 2 and 1 and ended on row 0
C13_Witness ==
    /\ pc = "search" /\ out.key = ARROW_UP
    /\ E.totalRows = 3
    /\ \A r \in 0..2 : RowHasQuery(r) <=> r = 0
    /\ out.g0.lastMatch = 0
    /\ out.examined = <<2, 1, 0>>
    /\ E.cy = 0

\* a step forward from the last row wrapped to row 0
C13_ForwardWrap ==
    /\ pc = "search" /\ out.key = ARROW_DOWN
    /\ E.totalRows = 3
    /\ out.g0.lastMatch = 2
    /\ out.examined = <<0>>
    /\ E.cy = 0

\* the rows (1-based) that carry a SearchMatch tag
MatchRows(e) == {k \in 1..Len(e.row) : \E j \in 1..Len(e.row[k].hl) : e.row[k].hl[j] = HL_MATCH}

\* C14: during a search at most one row carries SearchMatch tags and all
\* other rows have the tags they had before the search began; when the
\* search has ended, by Enter or by Escape, every row has exactly the tags
\* it had before the search began.
C14_SearchRestoresTags ==
    /\ pc = "search" =>
          /\ Cardinality(MatchRows(E)) <= 1
          /\ \A k \in 1..Len(E.row) :
                k \notin MatchRows(E) => E.row[k].hl = out.before.row[k].hl
    /\ (pc = "session" /\ out.key \in {13, 27}) =>
          \A k \in 1..Len(E.row) : E.row[k].hl = out.before.row[k].hl

\* a search left by Escape while a match was shown in a row with tags other
\* than Normal, after matches in two different rows
C14_Witness ==
    /\ pc = "session" /\ out.key = 27
    /\ out.g0.savedHl # NilHl
    /\ MatchRows(out.e0) = {out.g0.savedHlLine + 1}
    /\ \E j \in 1..Len(out.g0.savedHl) : out.g0.savedHl[j] # HL_NORMAL
    /\ E.row[out.g0.savedHlLine + 1].hl = out.g0.savedHl
    /\ out.at[1] # out.before.cy

\* C15: after a search ended by Escape cx, cy, rowOffset and colOffset have
\* the values they had when the search began; after a search ended by Enter
\* the cursor is where the last match found put it.
C15_EscapeRestoresEnterKeeps ==
    /\ (pc = "session" /\ out.key = 27) =>
          /\ E.cx = out.before.cx /\ E.cy = out.before.cy
          /\ E.rowOffset = out.before.rowOffset /\ E.colOffset = out.before.colOffset
    /\ (pc = "session" /\ out.key = 13) =>
          /\ <<E.cy, E.cx>> = out.at
          /\ (out.g0.savedHl # NilHl) =>
                 /\ E.cy = out.g0.lastMatch
                 /\ Contains(E.row[E.cy + 1].render, out.query)

\* a search left by Escape after a match had moved the cursor to another
\* row and scrolled the screen
C15_Witness ==
    /\ pc = "session" /\ out.key = 27
    /\ out.e0.cy # out.before.cy
    /\ out.e0.cx # out.before.cx
    /\ out.e0.rowOffset # out.before.rowOffset
    /\ E.cy = out.before.cy /\ E.rowOffset = out.before.rowOffset

\* a search left by Enter with the cursor on a match in another row
C15_EnterKeeps ==
    /\ pc = "session" /\ out.key = 13
    /\ E.cy # out.before.cy
    /\ <<E.cy, E.cx>> = out.at

\* What a terminal shows for a sequence of items written to it in the state
\* t = [colour, styles, cells]: ESC [ n m sets the foreground colour (30..37,
\* 39 the default), switches a style on (1..9) or off (22..29) or, for 0,
\* resets both; a character is shown in the colour and styles in effect and
\* recorded in cells.
RECURSIVE Shown(_, _, _)
Shown(items, k, t) ==
    IF k > Len(items) THEN t
    ELSE LET it == items[k]
             n == it[2]
             t1 == IF it[1] = "ch"
                   THEN [t EXCEPT !.cells = Append(@, <<n, t.colour, t.styles>>)]
                   ELSE IF it[1] # "sgr" THEN t
                   ELSE IF n = 0 THEN [t EXCEPT !.colour = 39, !.styles = {}]
                   ELSE IF n \in 1..9 THEN [t EXCEPT !.styles = @ \cup {n}]
                   ELSE IF n = 22 THEN [t EXCEPT !.styles = @ \ {1, 2}]
                   ELSE IF n \in 23..29 THEN [t EXCEPT !.styles = @ \ {n - 20}]
                   ELSE IF n \in (30..37) \cup {39} THEN [t EXCEPT !.colour = n]
                   ELSE t
         IN Shown(items, k + 1, t1)

\* C23: for every character DrawRows writes for a buffer row, the colour
\* and style in effect on the terminal are the pair syntaxToGraphics maps
\* the character's tag to (the default colour and no style for Normal), and
\* at the end of every drawn row colour and style are back at the defaults.
C23_DrawnAsTagged ==
    \E lines \in {DrawRows(E)} :
        \A y \in 0..(E.screenRows - 1) :
            \E t \in {Shown(lines[y + 1], 1, [colour |-> 39, styles |-> {}, cells |-> <<>>])} :
                /\ t.colour = 39 /\ t.styles = {}
                /\ y + E.rowOffset < E.totalRows =>
                      \E row \in {E.row[y + E.rowOffset + 1]} :
                          \A x \in (E.colOffset + 1)..Len(row.render) :
                              x <= E.colOffset + E.screenCols =>
                                  \E g \in {syntaxToGraphics(row.hl[x])} :
                                      t.cells[x - E.colOffset] =
                                          <<row.render[x], g[1],
                                            IF g[2] = 0 THEN {} ELSE {g[2]}>>

\* during a search a row on the screen shows a match, drawn reversed,
\* followed by a Normal character
C23_Witness ==
    /\ pc = "search"
    /\ \E y \in 0..(E.screenRows - 1) :
          /\ y + E.rowOffset < E.totalRows
          /\ \E x \in (E.colOffset + 1)..(E.colOffset + E.screenCols - 1) :
                /\ x + 1 <= Len(E.row[y + E.rowOffset + 1].render)
                /\ E.row[y + E.rowOffset + 1].hl[x] = HL_MATCH
                /\ E.row[y + E.rowOffset + 1].hl[x + 1] = HL_NORMAL

\* the keys the claim lists as leaving the text of a prompt alone
PromptQuietKeys ==
    {HOME_KEY, END_KEY, PAGE_UP, PAGE_DOWN, ARROW_LEFT, ARROW_RIGHT, ARROW_UP, ARROW_DOWN}

\* C32: in the search prompt a named special key (Home, End, PageUp,
\* PageDown, an arrow) leaves the input text unchanged: the text after the
\* key is the text before it.
C32_NamedKeysKeepText ==
    [][(pc = "search" /\ pc' = "search" /\ out'.key \in PromptQuietKeys)
          => inp'.buf = inp.buf]_vars

(***************************************************************************)
(* The screens of a session: the main loop (pc = "session"), the search    *)
(* prompt (pc = "search"), the help screen (pc = "help") and the file      *)
(* explorer (pc = "explorer"), one key at a time.  The program was started *)
(* without a file or on a.c.  inp holds the variables of Find (g, buf,     *)
(* saved), the EditorState kept by the ModalManager (state) and the        *)
(* ExplorerScreen (ex).                                                    *)
(***************************************************************************)
ScreenMaxRows == 3
ScreenMaxLen == 3
ScreenMaxDirty == 1
ScreenMaxQuery == 1

\* a
ScreenAlphabet == {97}

\* the directories os.ReadDir can read: . holds a.c (a comment opener, then
\* a tab and a) and the directory d; d holds b with a row of a control
\* character and a
ScreenFs ==
    (<<46>> :> << [name |-> <<97, 46, 99>>, isDir |-> FALSE, size |-> 6,
                  file |-> << <<47, 42>>, <<9, 97>> >>],
                 [name |-> <<100>>, isDir |-> TRUE, size |-> 0, file |-> NoFile] >>)
    @@ (<<100>> :> << [name |-> <<98>>, isDir |-> FALSE, size |-> -1,
                      file |-> << <<1, 97>> >>] >>)

\* no modal screen is shown: there is no ModalManager and no ExplorerScreen
NoState == getEditorState(EditorInit(TermRows, TermCols))

NoExplorer == [currentDir |-> <<46>>, files |-> <<>>, hasParentDir |-> FALSE, content |-> <<>>]

InitScreens ==
    /\ E \in { RefreshScreen(EditorInit(TermRows, TermCols)),
                RefreshScreen(Open(EditorInit(TermRows, TermCols), EditName,
                                   ScreenFs[<<46>>][1].file)) }
    /\ quitTimes = QUIT_TIMES
    /\ exited = FALSE
    /\ quitRun = 0
    /\ pc = "session"
    /\ inp = [g |-> FindVars, buf |-> <<>>,
              saved |-> NoSaved, state |-> NoState, ex |-> NoExplorer]
    /\ out = <<>>

\* Ctrl-F and the keys read by the search prompt
ScreenFind == FindOpen /\ UNCHANGED out

ScreenPrompt ==
    /\ \E key \in ScreenAlphabet \cup {BACKSPACE, ARROW_UP, ARROW_DOWN, ENTER, ESCAPE} :
          /\ key \in ScreenAlphabet => Len(inp.buf) < ScreenMaxQuery
          /\ PromptMove(key)
    /\ UNCHANGED out

\* Ctrl-H read in the main loop: Help builds the screen, the ModalManager
\* keeps the editor state, and Show sets the display up and refreshes
HelpOpen ==
    /\ pc = "session"
    /\ ~exited
    /\ \E h \in {NewHelpScreen(E)} :
          /\ E' = RefreshScreen([setupModalDisplay(h.e, h.content, HELP_MODE,
                                  "Help Screen - Use Arrow Keys to scroll, 'q' or Escape to exit")
                                    EXCEPT !.cy = 0, !.rowOffset = 0])
          /\ inp' = [inp EXCEPT !.state = getEditorState(h.e)]
    /\ pc' = "help"
    /\ quitRun' = 0
    /\ out' = [before |-> E]
    /\ UNCHANGED <<quitTimes, exited>>

\* one key read by Show while the help screen is displayed; when the screen
\* closes, Help and ProcessKeypress return and the main loop refreshes
HelpStep ==
    /\ pc = "help"
    /\ \E key \in {113, 81, ESCAPE, ARROW_UP, ARROW_DOWN, PAGE_UP, PAGE_DOWN,
                    HOME_KEY, END_KEY} :
       \E r \in {HelpHandleKey(E, key, Len(E.row))} :
          /\ E' = RefreshScreen(IF r.close THEN restoreState(r.e, inp.state) ELSE r.e)
          /\ pc' = IF r.close THEN "session" ELSE "help"
          /\ quitTimes' = IF r.close THEN QUIT_TIMES ELSE quitTimes
          /\ inp' = IF r.close THEN [inp EXCEPT !.state = NoState] ELSE inp
          /\ out' = IF r.close THEN <<>> ELSE out
    /\ UNCHANGED <<exited, quitRun>>

\* Ctrl-E read in the main loop: Explorer makes the screen for ".", and when
\* the directory was read the ModalManager keeps the editor state and Show
\* sets the display up, lets the screen select its first item and refreshes
ExplorerOpen ==
    /\ pc = "session"
    /\ ~exited
    /\ \E n \in {refreshContent(E, NoExplorer, <<46>>, ScreenFs)} :
          IF ~n.ok
          THEN /\ E' = RefreshScreen([ShowError(n.e, <<"Failed to read directory: %v">>)
                                         EXCEPT !.mode = EDIT_MODE])
               /\ pc' = "session"
               /\ quitTimes' = QUIT_TIMES
               /\ inp' = inp
          ELSE \E i \in {explorerInitialize(
                             setupModalDisplay(n.e, n.ex.content, EXPLORER_MODE,
                                               ExplorerStatusMessage(n.ex)),
                             n.ex)} :
                  /\ E' = RefreshScreen(i.e)
                  /\ pc' = "explorer"
                  /\ quitTimes' = quitTimes
                  /\ inp' = [inp EXCEPT !.state = getEditorState(n.e), !.ex = i.ex]
    /\ quitRun' = 0
    /\ UNCHANGED <<exited, out>>

\* one key read by Show while the explorer is displayed; when the screen
\* closes, Explorer returns, ProcessKeypress puts the editor in edit mode
\* and the main loop refreshes
ExplorerStep ==
    /\ pc = "explorer"
    /\ \E key \in {113, ESCAPE, ARROW_UP, ARROW_DOWN, ENTER} :
       \E r \in {ExplorerHandleKey(E, inp.ex, key, ScreenFs)} :
          /\ E' = IF r.close
                  THEN RefreshScreen([IF r.restore THEN restoreState(r.e, inp.state) ELSE r.e
                                         EXCEPT !.mode = EDIT_MODE])
                  ELSE RefreshScreen(r.e)
          /\ pc' = IF r.close THEN "session" ELSE "explorer"
          /\ quitTimes' = IF r.close THEN QUIT_TIMES ELSE quitTimes
          /\ inp' = IF r.close THEN [inp EXCEPT !.state = NoState, !.ex = NoExplorer]
                    ELSE [inp EXCEPT !.ex = r.ex]
    /\ UNCHANGED <<exited, quitRun, out>>

NextScreens ==
    \/ InsertKey(ScreenAlphabet, ScreenMaxRows, ScreenMaxLen, ScreenMaxDirty)
    \/ EnterKey(ScreenMaxRows, ScreenMaxDirty)
    \/ BackspaceKey(ScreenMaxLen, ScreenMaxDirty)
    \/ DeleteKey(ScreenMaxLen, ScreenMaxDirty)
    \/ ArrowKey
    \/ HomeEndKey
    \/ PageKey
    \/ ScreenFind
    \/ ScreenPrompt
    \/ HelpOpen
    \/ HelpStep
    \/ ExplorerOpen
    \/ ExplorerStep

SpecScreens == InitScreens /\ [][NextScreens]_vars

\* C16: in every state, whichever screen is shown, every row in e.row has a
\* highlight tag for each character of its rendered text and no more.
C16_HlLenIsRenderLen ==
    \A k \in 1..Len(E.row) : Len(E.row[k].hl) = Len(E.row[k].render)

\* after an edit, the search prompt is open and a match is marked in a row
\* whose rendered text is longer than its raw text
C16_Witness ==
    /\ pc = "search"
    /\ E.dirty > 0
    /\ \E k \in 1..Len(E.row) :
          /\ Len(E.row[k].render) > Len(E.row[k].chars)
          /\ Len(E.row[k].hl) = Len(E.row[k].render)
          /\ \E j \in 1..Len(E.row[k].hl) : E.row[k].hl[j] = HL_MATCH

\* the help screen is shown over a C file, the cursor moved down
C16_HelpShown ==
    /\ pc = "help"
    /\ E.mode = HELP_MODE
    /\ E.syntax # NoSyntax
    /\ E.totalRows = Len(helpContent)
    /\ E.cy > 0

\* the explorer is shown in directory d with its entry selected
C16_ExplorerShown ==
    /\ pc = "explorer"
    /\ inp.ex.currentDir = <<100>>
    /\ \E k \in 2..Len(E.row) : \A j \in 1..Len(E.row[k].hl) : E.row[k].hl[j] = HL_MATCH

\* C30: while the editor waits for a key in edit mode, after any keys,
\* 0 <= cy <= totalRows, 0 <= cx <= len(row[cy]) when cy < totalRows, and
\* cx = 0 when cy = totalRows.
C30_CursorInBuffer ==
    (pc = "session" /\ E.mode = EDIT_MODE) =>
        /\ 0 <= E.cy /\ E.cy <= E.totalRows
        /\ E.totalRows = Len(E.row)
        /\ 0 <= E.cx
        /\ E.cx <= (IF E.cy < E.totalRows THEN Len(E.row[E.cy + 1].chars) ELSE 0)

\* back in edit mode after a modal screen was closed, the cursor on the line
\* after the last of several rows
C30_Witness ==
    /\ pc = "session"
    /\ E.mode = EDIT_MODE
    /\ E.totalRows > 1
    /\ E.cy = E.totalRows
    /\ E.cx = 0
    /\ E.statusMessage[1] = "Returned to editor"

\* C33: while the explorer is displayed, after every handled key the cursor
\* row cy refers to an existing item row (1 <= cy < number of displayed
\* rows), that row's tags are all the selection tag, and the tags of every
\* other item row are all Normal.
C33_SelectionIsCursorRow ==
    pc = "explorer" =>
        /\ 1 <= E.cy /\ E.cy < Len(E.row)
        /\ \A i \in 2..Len(E.row) :
              \A j \in 1..Len(E.row[i].hl) :
                  E.row[i].hl[j] = IF i = E.cy + 1 THEN HL_MATCH ELSE HL_NORMAL

\* the texts of rows
Texts(rows) == [i \in 1..Len(rows) |-> rows[i].chars]

HelpMaxRows == 3
HelpMaxLen == 2
HelpMaxDirty == 2

\* *
HelpAlphabet == {42}

\* the file the session starts on, as its lines: //* and a
HelpFile == << <<47, 47, 42>>, <<97>> >>

InitHelp ==
    /\ E = RefreshScreen(Open(EditorInit(TermRows, TermCols), EditName, HelpFile))
    /\ quitTimes = QUIT_TIMES
    /\ exited = FALSE
    /\ quitRun = 0
    /\ pc = "session"
    /\ inp = [g |-> FindVars, buf |-> <<>>,
              saved |-> NoSaved, state |-> NoState, ex |-> NoExplorer]
    /\ out = <<>>

NextHelp ==
    \/ InsertKey(HelpAlphabet, HelpMaxRows, HelpMaxLen, HelpMaxDirty)
    \/ EnterKey(HelpMaxRows, HelpMaxDirty)
    \/ ArrowKey
    \/ HelpOpen
    \/ HelpStep

SpecHelp == InitHelp /\ [][NextHelp]_vars

\* C26: closing the help screen with q, Q or Escape puts rows, row count,
\* cx, cy, rowOffset and colOffset back to the values they had when Ctrl-H
\* was read and returns to edit mode, with dirty and filename unchanged,
\* whatever keys moved the help text in between.
C26_HelpRestores ==
    [][(pc = "help" /\ pc' = "session") =>
          /\ E'.row = out.before.row
          /\ E'.totalRows = out.before.totalRows
          /\ E'.cx = out.before.cx /\ E'.cy = out.before.cy
          /\ E'.rowOffset = out.before.rowOffset
          /\ E'.colOffset = out.before.colOffset
          /\ E'.mode = EDIT_MODE
          /\ E'.dirty = out.before.dirty
          /\ E'.filename = out.before.filename]_vars

\* C31: in the help screen, pressing End leads after the refresh to a state
\* in which the last help line lies inside the viewport
\* (rowOffset <= last line < rowOffset + screenRows).
C31_EndShowsLastLine ==
    [][(/\ pc = "help" /\ pc' = "help"
        /\ E' = RefreshScreen(HelpHandleKey(E, END_KEY, Len(E.row)).e))
       => /\ E'.rowOffset <= E'.totalRows - 1
          /\ E'.totalRows - 1 < E'.rowOffset + E'.screenRows]_vars

\* the help rows NewHelpScreen builds in an editor with the C syntax whose
\* buffer is the one line a
HelpReference ==
    NewHelpScreen(Open(EditorInit(TermRows, TermCols), EditName, << <<97>> >>)).content

\* C34: the tags of the help rows do not depend on the edited buffer (they
\* are the tags the help rows get over any other buffer with the same
\* syntax), and building the help rows changed no tag of a buffer row: the
\* rows kept for the return are the rows as they were when Ctrl-H was read.
C34_HelpTagsIgnoreBuffer ==
    pc = "help" =>
        /\ \A i \in 1..Len(E.row) : E.row[i].hl = HelpReference[i].hl
        /\ \A i \in 1..Len(inp.state.rows) : inp.state.rows[i].hl = out.before.row[i].hl

(***************************************************************************)
(* Keys of the main loop on a small buffer: typing a, e with acute accent  *)
(* and Tab, ENTER, the arrow keys, and Ctrl-R with the answers the window  *)
(* size query can give.                                                    *)
(***************************************************************************)
KeysMaxRows == 2
KeysMaxLen == 2
KeysMaxDirty == 3

\* a, e with acute accent, Tab
KeysAlphabet == {97, 233, 9}

\* what getWindowsSize can return: the size of the terminal, that of a
\* terminal one row and one column larger, or an error, with which
\* term.GetSize gives 0 for both numbers
WindowSizes ==
    { [ok |-> TRUE, rows |-> TermRows, cols |-> TermCols],
      [ok |-> TRUE, rows |-> TermRows + 1, cols |-> TermCols + 1],
      [ok |-> FALSE, rows |-> 0, cols |-> 0] }

InitKeys ==
    /\ E = RefreshScreen(EditorInit(TermRows, TermCols))
    /\ quitTimes = QUIT_TIMES
    /\ exited = FALSE
    /\ quitRun = 0
    /\ pc = "session"
    /\ inp = <<>>
    /\ out = <<>>

\* Ctrl-R read in the main loop
RedrawKey ==
    /\ pc = "session"
    /\ \E size \in WindowSizes : KeyStep(CTRL_R, [NoEnv EXCEPT !.size = size])

NextKeys ==
    \/ InsertKey(KeysAlphabet, KeysMaxRows, KeysMaxLen, KeysMaxDirty)
    \/ EnterKey(KeysMaxRows, KeysMaxDirty)
    \/ ArrowKey
    \/ RedrawKey

SpecKeys == InitKeys /\ [][NextKeys]_vars

\* a Ctrl-R whose window size query fails
RedrawFails ==
    \E size \in WindowSizes :
        ~size.ok /\ KeyStep(CTRL_R, [NoEnv EXCEPT !.size = size])

\* C36: when the screen-size query fails during Redraw, the error is
\* reported as a status message and screenRows and screenCols keep their
\* previous values.
C36_FailedQueryKeepsSize ==
    [][RedrawFails =>
          /\ E'.statusMessage = <<"Warn: %v", "%v">>
          /\ E'.screenRows = E.screenRows
          /\ E'.screenCols = E.screenCols]_vars

\* the characters of row cy of e, none on the line after the last row
RowChars(e, cy) == IF cy < e.totalRows THEN e.row[cy + 1].chars ELSE <<>>

\* C37: in edit mode a key that is a printable character, a code point of
\* 128 or above or Tab is inserted into the current row at the cursor
\* column and advances the cursor by one column: that is what
\* ProcessKeypress makes of the editor for each such key.
C37_UnboundKeyInserted ==
    \A c \in KeysAlphabet :
        \E r \in {ProcessKeypress(E, quitTimes, c, NoEnv)} :
            /\ r.e.cy = E.cy
            /\ r.e.cx = E.cx + 1
            /\ r.e.totalRows > E.cy
            /\ RowChars(r.e, E.cy) = SubSeq(RowChars(E, E.cy), 1, E.cx) \o <<c>>
                                      \o SubSeq(RowChars(E, E.cy), E.cx + 1,
                                                Len(RowChars(E, E.cy)))

(***************************************************************************)
(* The single-file version of the editor (main.go): rows keep an explicit  *)
(* size next to the chars slice and an rsize next to render.  The editor   *)
(* is the global E; here it is the record c.  The field panicked is not a  *)
(* field of the struct: it says that a run-time panic (index out of range) *)
(* ended the process, after which nothing more runs.  The editor is        *)
(* started without a file argument, so E.syntax stays nil.                 *)
(***************************************************************************)
\* initEditor(), for a terminal of termRows x termCols
initEditor(termRows, termCols) ==
    [cx |-> 0, cy |-> 0, rx |-> 0, rowOffset |-> 0, colOffset |-> 0,
     screenRows |-> termRows - 2, screenCols |-> termCols,
     totalRows |-> 0, row |-> <<>>, dirty |-> 0, filename |-> <<>>,
     statusMessage |-> <<"">>, syntax |-> NoSyntax, panicked |-> FALSE]

\* editorUpdateSyntax(row) for row == &E.row[pos] with E.syntax == nil: every
\* rendered character is tagged Normal
editorUpdateSyntax(c, pos) ==
    [c EXCEPT !.row[pos + 1].hl = Zeros(c.row[pos + 1].rsize)]

\* row.render[idx] = v: w is the render buffer, the index of the next write
\* and whether a write has gone past the end of the buffer
renderWrite(w, v) ==
    IF w.panic THEN w
    ELSE IF w.idx >= Len(w.render) THEN [w EXCEPT !.panic = TRUE]
    ELSE [w EXCEPT !.render[w.idx + 1] = v, !.idx = @ + 1]

\* for idx%TAB_STOP != 0 { row.render[idx] = ' '; idx++ }
RECURSIVE renderPad(_)
renderPad(w) ==
    IF w.panic \/ w.idx % TAB_STOP = 0 THEN w ELSE renderPad(renderWrite(w, 32))

\* the second loop of editorUpdateRow, over every element of row.chars
RECURSIVE renderLoop(_, _, _)
renderLoop(chars, k, w) ==
    IF k > Len(chars) \/ w.panic THEN w
    ELSE IF chars[k] = 9 THEN renderLoop(chars, k + 1, renderPad(renderWrite(w, 32)))
    ELSE renderLoop(chars, k + 1, renderWrite(w, chars[k]))

\* the end of editorUpdateRow, w what the render loop left
editorUpdateRowEnd(c, pos, w) ==
    IF w.panic THEN [c EXCEPT !.row[pos + 1].render = w.render, !.panicked = TRUE]
    ELSE editorUpdateSyntax([c EXCEPT !.row[pos + 1].render = w.render,
                                      !.row[pos + 1].rsize = w.idx], pos)

\* editorUpdateRow(row) for row == &E.row[pos]: the render buffer is made for
\* row.size characters plus the worst case of the tabs counted in row.chars
editorUpdateRow(c, pos) ==
    LET row == c.row[pos + 1]
        tabs == Cardinality({k \in 1..Len(row.chars) : row.chars[k] = 9})
    IN editorUpdateRowEnd(c, pos,
           renderLoop(row.chars, 1,
                      [render |-> Zeros(row.size + tabs * (TAB_STOP - 1)),
                       idx |-> 0, panic |-> FALSE]))

\* E.totalRows++; E.dirty++ and the like, which a panic before them skips
countEdit(c, rows) ==
    IF c.panicked THEN c ELSE [c EXCEPT !.totalRows = @ + rows, !.dirty = @ + 1]

\* editorInsertRow(at, s, rowlen)
editorInsertRow(c, at, s, rowlen) ==
    IF at < 0 \/ at > c.totalRows THEN c
    ELSE countEdit(
           editorUpdateRow(
             [c EXCEPT !.row =
                 [j \in 1..(Len(c.row) + 1) |->
                     IF j - 1 = at
                     THEN [idx |-> at, size |-> rowlen, chars |-> SubSeq(s, 1, rowlen),
                           rsize |-> 0, render |-> <<>>, hl |-> <<>>,
                           hlOpenComment |-> FALSE]
                     ELSE IF j - 1 < at THEN c.row[j]
                     ELSE IF j - 1 < c.totalRows
                          THEN [c.row[j - 1] EXCEPT !.idx = @ + 1]
                     ELSE c.row[j - 1]]],
             at),
           1)

\* editorDeleteRow(at)
editorDeleteRow(c, at) ==
    IF at < 0 \/ at >= c.totalRows THEN c
    ELSE [c EXCEPT !.row = [j \in 1..(c.totalRows - 1) |->
                               IF j - 1 >= at THEN [c.row[j + 1] EXCEPT !.idx = @ - 1]
                               ELSE c.row[j]],
                   !.totalRows = @ - 1,
                   !.dirty = @ + 1]

\* at < 0 || at > erow.size: at = erow.size
clampAt(row, at) == IF at < 0 \/ at > row.size THEN row.size ELSE at

\* editorRowInsertChar(erow, at, c) for erow == &E.row[pos]: the slice grows
\* by one element at its end, the elements at..size-1 move up by one
editorRowInsertChar(c, pos, at0, ch) ==
    LET erow == c.row[pos + 1]
        at == clampAt(erow, at0)
    IN countEdit(
         editorUpdateRow(
           [c EXCEPT !.row[pos + 1].chars =
                        [k \in 1..(Len(erow.chars) + 1) |->
                            IF k - 1 = at THEN ch
                            ELSE IF k - 1 > at /\ k - 1 <= erow.size THEN erow.chars[k - 1]
                            ELSE IF k <= Len(erow.chars) THEN erow.chars[k]
                            ELSE 0],
                     !.row[pos + 1].size = erow.size + 1],
           pos),
         0)

\* editorRowAppendString(erow, s, slen) for erow == &E.row[pos]
editorRowAppendString(c, pos, s, slen) ==
    countEdit(
      editorUpdateRow(
        [c EXCEPT !.row[pos + 1].chars =
                     SubSeq(c.row[pos + 1].chars, 1, c.row[pos + 1].size) \o SubSeq(s, 1, slen),
                  !.row[pos + 1].size = c.row[pos + 1].size + slen],
        pos),
      0)

\* editorRowDeleteChar(erow, at) for erow == &E.row[pos]: the elements
\* at+1..size-1 move down by one; the slice keeps its length
editorRowDeleteChar(c, pos, at) ==
    LET erow == c.row[pos + 1] IN
    IF at < 0 \/ at >= erow.size THEN c
    ELSE countEdit(
           editorUpdateRow(
             [c EXCEPT !.row[pos + 1].chars =
                          [k \in 1..Len(erow.chars) |->
                              IF k - 1 >= at /\ k - 1 < erow.size - 1
                              THEN erow.chars[k + 1]
                              ELSE erow.chars[k]],
                       !.row[pos + 1].size = erow.size - 1],
             pos),
           0)

\* E.cx++ and the like, which a panic before them skips
moveBy(c, dx, dy) ==
    IF c.panicked THEN c ELSE [c EXCEPT !.cx = @ + dx, !.cy = @ + dy]

\* editorInsertChar(c)
editorInsertChar(c, ch) ==
    moveBy(editorRowInsertChar(
               IF c.cy = c.totalRows THEN editorInsertRow(c, c.totalRows, <<>>, 0) ELSE c,
               c.cy, c.cx, ch),
           1, 0)

\* the else branch of editorInsertNewline after editorInsertRow: the current
\* row is cut at the cursor and rendered again
truncateRow(c, pos, cx) ==
    IF c.panicked THEN c
    ELSE editorUpdateRow([c EXCEPT !.row[pos + 1].size = cx,
                                   !.row[pos + 1].chars = SubSeq(c.row[pos + 1].chars, 1, cx)],
                         pos)

\* editorInsertNewline()
editorInsertNewline(c) ==
    moveBy(IF c.cx = 0 THEN editorInsertRow(c, c.cy, <<>>, 0)
           ELSE truncateRow(
                    editorInsertRow(c, c.cy + 1,
                        SubSeq(c.row[c.cy + 1].chars, c.cx + 1, c.row[c.cy + 1].size),
                        c.row[c.cy + 1].size - c.cx),
                    c.cy, c.cx),
           -c.cx, 1)

\* the end of the join in editorDeleteChar: the row under the cursor is
\* deleted and the cursor moves up
joinEnd(c, cy) ==
    IF c.panicked THEN c ELSE [editorDeleteRow(c, cy) EXCEPT !.cy = cy - 1]

\* editorDeleteChar()
editorDeleteChar(c) ==
    IF c.cy = c.totalRows THEN c
    ELSE IF c.cx = 0 /\ c.cy = 0 THEN c
    ELSE IF c.cx > 0 THEN moveBy(editorRowDeleteChar(c, c.cy, c.cx - 1), -1, 0)
    ELSE joinEnd(editorRowAppendString([c EXCEPT !.cx = c.row[c.cy].size], c.cy - 1,
                                       c.row[c.cy + 1].chars, c.row[c.cy + 1].size),
                 c.cy)

\* the end of editorMoveCursor: the column is cut to the length of the row
\* the cursor is now on
snapToRow(c) ==
    IF c.cx > (IF c.cy >= c.totalRows THEN 0 ELSE c.row[c.cy + 1].size)
    THEN [c EXCEPT !.cx = IF c.cy >= c.totalRows THEN 0 ELSE c.row[c.cy + 1].size]
    ELSE c

\* editorMoveCursor(key)
editorMoveCursor(c, key) ==
    snapToRow(
      CASE key = ARROW_LEFT ->
               IF c.cx # 0 THEN [c EXCEPT !.cx = @ - 1]
               ELSE IF c.cy > 0 THEN [c EXCEPT !.cy = @ - 1, !.cx = c.row[c.cy].size]
               ELSE c
        [] key = ARROW_RIGHT ->
               IF c.cy < c.totalRows /\ c.cx < c.row[c.cy + 1].size
               THEN [c EXCEPT !.cx = @ + 1]
               ELSE IF c.cy < c.totalRows /\ c.cx = c.row[c.cy + 1].size
                    THEN [c EXCEPT !.cy = @ + 1, !.cx = 0]
               ELSE c
        [] key = ARROW_UP -> IF c.cy # 0 THEN [c EXCEPT !.cy = @ - 1] ELSE c
        [] key = ARROW_DOWN -> IF c.cy < c.totalRows THEN [c EXCEPT !.cy = @ + 1] ELSE c
        [] OTHER -> c)

\* editorRowCxToRx(row, cx)
RECURSIVE editorRowCxToRx(_, _, _, _)
editorRowCxToRx(chars, cx, j, rx) ==
    IF j >= cx THEN rx
    ELSE editorRowCxToRx(chars, cx, j + 1,
             IF chars[j + 1] = 9 THEN rx + (TAB_STOP - (rx % TAB_STOP)) ELSE rx + 1)

\* the offsets part of editorScroll, rx the render column of the cursor
scrollTo(c, rx) ==
    [c EXCEPT !.rx = rx,
              !.rowOffset = IF c.cy < c.rowOffset THEN c.cy
                            ELSE IF c.cy >= c.rowOffset + c.screenRows
                                 THEN c.cy - c.screenRows + 1
                            ELSE c.rowOffset,
              !.colOffset = IF rx < c.colOffset THEN rx
                            ELSE IF rx >= c.colOffset + c.screenCols
                                 THEN rx - c.screenCols + 1
                            ELSE c.colOffset]

\* editorScroll()
editorScroll(c) ==
    scrollTo(c, IF c.cy < c.totalRows
                THEN editorRowCxToRx(c.row[c.cy + 1].chars, c.cx, 0, 0) ELSE 0)

\* editorProcessKeypress() for the editing and cursor keys, then the
\* editorRefreshScreen() of the next turn of main's loop
editorProcessKeypress(c, key) ==
    CASE key = ENTER -> editorInsertNewline(c)
      [] key = HOME_KEY -> [c EXCEPT !.cx = 0]
      [] key = END_KEY ->
             IF c.cy < c.totalRows THEN [c EXCEPT !.cx = c.row[c.cy + 1].size] ELSE c
      [] key = BACKSPACE -> editorDeleteChar(c)
      [] key = DELETE_KEY -> editorDeleteChar(editorMoveCursor(c, ARROW_RIGHT))
      [] key \in {ARROW_LEFT, ARROW_RIGHT, ARROW_UP, ARROW_DOWN} -> editorMoveCursor(c, key)
      [] OTHER -> editorInsertChar(c, key)

(***************************************************************************)
(* The session of the single-file version: main's loop, one key at a time. *)
(***************************************************************************)
MainMaxRows == 2
MainMaxLen == 3
MainMaxDirty == 5

\* a, tab
MainAlphabet == {97, 9}

InitMain ==
    /\ E = editorScroll(initEditor(TermRows, TermCols))
    /\ quitTimes = QUIT_TIMES
    /\ exited = FALSE
    /\ quitRun = 0
    /\ pc = "main"
    /\ inp = <<>>
    /\ out = <<>>

MainPress(key) ==
    /\ pc = "main"
    /\ ~E.panicked
    /\ \E c \in {editorProcessKeypress(E, key)} :
          E' = IF c.panicked THEN c ELSE editorScroll(c)
    /\ quitTimes' = QUIT_TIMES
    /\ UNCHANGED <<exited, quitRun, pc, inp, out>>

MainInsertKey ==
    /\ E.dirty < MainMaxDirty
    /\ IF E.cy = E.totalRows THEN E.totalRows < MainMaxRows
       ELSE E.row[E.cy + 1].size < MainMaxLen
    /\ \E ch \in MainAlphabet : MainPress(ch)

MainEnterKey ==
    /\ E.dirty < MainMaxDirty
    /\ E.totalRows < MainMaxRows
    /\ MainPress(ENTER)

MainBackspaceKey ==
    /\ E.dirty < MainMaxDirty
    /\ (E.cx = 0 /\ E.cy > 0 /\ E.cy < E.totalRows)
          => E.row[E.cy].size + E.row[E.cy + 1].size <= MainMaxLen
    /\ MainPress(BACKSPACE)

MainDeleteKey ==
    /\ E.dirty < MainMaxDirty
    /\ (E.cy + 1 < E.totalRows /\ E.cx = E.row[E.cy + 1].size)
          => E.row[E.cy + 1].size + E.row[E.cy + 2].size <= MainMaxLen
    /\ MainPress(DELETE_KEY)

MainArrowKey ==
    /\ pc = "main"
    /\ \E k \in {ARROW_LEFT, ARROW_RIGHT, ARROW_UP, ARROW_DOWN} : MainPress(k)

MainHomeEndKey ==
    /\ pc = "main"
    /\ \E k \in {HOME_KEY, END_KEY} : MainPress(k)

NextMain ==
    \/ MainInsertKey
    \/ MainEnterKey
    \/ MainBackspaceKey
    \/ MainDeleteKey
    \/ MainArrowKey
    \/ MainHomeEndKey

SpecMain == InitMain /\ [][NextMain]_vars

\* C7: after any sequence of row insertions, row deletions and edits the row
\* count equals the number of rows and every row's idx equals its 0-based
\* position, the last row after an insertion in front of it included.
C7_RowIdxIsPosition ==
    /\ E.totalRows = Len(E.row)
    /\ \A k \in 1..Len(E.row) : E.row[k].idx = k - 1

\* C9: in the row variant with a size field, size equals the length of the
\* chars slice after every row operation, and rendering a row never writes
\* past the end of its render buffer.
C9_SizeIsLenChars ==
    /\ ~E.panicked
    /\ \A k \in 1..Len(E.row) : E.row[k].size = Len(E.row[k].chars)

====
